---- MODULE Spec2Model ----
(***************************************************************************)
(* Early-bidder analysis engine of solscan_hotkey                          *)
(* (src/monitor/helius_api.py, class HeliusAPI) and the job runner that    *)
(* calls it (src/backend/app/routers/analysis.py).                         *)
(*                                                                         *)
(* One analysis run is a sequential state machine:                         *)
(*   metadata lookup -> efficient pagination (getTransactionsForAddress)   *)
(*   -> on exception the old backward pagination -> window -> aggregation  *)
(*   -> result.                                                            *)
(* Every remote call is one action; its outcome (value, empty, exception)  *)
(* is chosen by the environment.                                           *)
(*                                                                         *)
(* Representation:                                                         *)
(*   - Python None for an address is the string "None"; a missing          *)
(*     blockTime is 0 (None and 0 are both falsy in `if tx.get(..)`).      *)
(*   - USD amounts are integers in micro-dollars: the code computes        *)
(*     amount / 1e9 * 200 as a float; all lamport amounts of the model are *)
(*     multiples of 1000, for which (amount \div 1000) * 200 is exact.     *)
(*   - Python indexes from 0, TLA+ sequences from 1.                       *)
(***************************************************************************)
EXTENDS Integers, Sequences, FiniteSets, TLC

(***************************************************************************)
(* Program constants                                                       *)
(***************************************************************************)
\* `amount > 100000` : native transfers at or below this are ignored
DUST_LAMPORTS == 100000
\* `usd_amount = sol_amount * 200`
SOL_USD == 200
\* lamports per micro-SOL (1e9 lamports per SOL / 1e6)
LAMPORTS_PER_MICROSOL == 1000
\* micro-dollars per dollar (unit of total_usd / min_usd in the model)
MICRO == 1000000
\* `total_credits = api_calls * 100`
BATCH_CALL_CREDITS == 100
\* `len(decoded) != 32`
PUBKEY_BYTES == 32
\* timedelta(hours=h) in seconds
SECONDS_PER_HOUR == 3600

(***************************************************************************)
(* Bounds of the model.  The page sizes and caps of the code are scaled    *)
(* down so that several pages fit in a bounded run; the real values are    *)
(* given with each.                                                        *)
(***************************************************************************)
\* largest max_transactions a run is started with
MaxLimit == 3
\* `batch_limit = min(remaining_limit, 100)` : page size of the efficient call
BatchPage == 2
\* `remaining_limit = min(limit, 500)` : cap of the efficient strategy
EfficientCap == 3
\* `batch_size = 1000` : page size of getSignaturesForAddress
SigPage == 2
\* `if total_fetched >= 50000` : safety limit of the old method
SafetyCap == 4

NoneVal == "None"

Min(a, b) == IF a <= b THEN a ELSE b
Max(a, b) == IF a >= b THEN a ELSE b
Abs(x) == IF x < 0 THEN -x ELSE x

(***************************************************************************)
(* Addresses.  base58.b58decode either raises or yields some bytes; the    *)
(* table gives, for each address of the model, the decoded length          *)
(* (-1 = not base58).                                                      *)
(***************************************************************************)
Wallets == {"A", "B", "S", "X"}
TokenAccount == "T"
Addresses == Wallets \cup {TokenAccount}

b58decode_len(w) ==
    CASE w = "A" -> 32
      [] w = "B" -> 32
      [] w = "T" -> 32
      [] w = "S" -> 31
      [] OTHER   -> -1

\* mutant: only the decode is checked, not the length
is_wallet_on_curve_nolen(wallet_address) ==
    b58decode_len(wallet_address) >= 0

is_wallet_on_curve(wallet_address) ==
    IF b58decode_len(wallet_address) < 0
    THEN FALSE
    ELSE IF b58decode_len(wallet_address) # PUBKEY_BYTES
         THEN FALSE
         ELSE TRUE

MINT == "MINT"
OTHER_MINT == "OTHER"

(***************************************************************************)
(* Transaction Normalizer: _parse_rpc_transaction                          *)
(*                                                                         *)
(* A raw transaction is a record                                           *)
(*   [blockTime, meta_ok, accountKeys, preBalances, postBalances,          *)
(*    preTokenBalances, postTokenBalances]                                 *)
(* meta_ok = FALSE stands for a payload whose `meta` is null, on which     *)
(* `'postTokenBalances' in meta` raises.  A token balance is               *)
(*   [accountIndex, mint, uiAmount, amount, decimals], uiAmount = NoUi     *)
(* when the field is null; accountIndex counts from 0 as in the payload.   *)
(***************************************************************************)
NoUi == -1

RECURSIVE Pow10(_)
Pow10(d) == IF d = 0 THEN 1 ELSE 10 * Pow10(d - 1)

\* the value a missing pre-balance (`pre_balances.get(account_index, {})`) reads as
EmptyBalance == [accountIndex |-> -1, mint |-> NoneVal, uiAmount |-> NoUi,
                 amount |-> 0, decimals |-> 0]

\* mutant: uiAmount is assumed to be populated (None reads as 0)
token_amount_ui_only(bal) ==
    IF bal.uiAmount = NoUi THEN 0 ELSE bal.uiAmount

\* `if ui_amount is None: raw / 10 ** decimals if decimals > 0 else raw`
token_amount(bal) ==
    IF bal.uiAmount = NoUi
    THEN IF bal.decimals > 0 THEN bal.amount \div Pow10(bal.decimals) ELSE bal.amount
    ELSE bal.uiAmount

\* `pre_balances.get(account_index, {})` on the dict built from preTokenBalances
pre_balance_of(pre, account_index) ==
    IF \E k \in 1..Len(pre) : pre[k].accountIndex = account_index
    THEN pre[CHOOSE k \in 1..Len(pre) :
                /\ pre[k].accountIndex = account_index
                /\ \A j \in (k+1)..Len(pre) : pre[j].accountIndex # account_index]
    ELSE EmptyBalance

Indices(n) == [i \in 1..n |-> i]

parse_token_transfers(tx_data) ==
    LET post == tx_data.postTokenBalances
        pre  == tx_data.preTokenBalances
        accounts == tx_data.accountKeys
        preAmt(i)  == token_amount(pre_balance_of(pre, post[i].accountIndex))
        postAmt(i) == token_amount(post[i])
        changed(i) == /\ preAmt(i) # postAmt(i)
                      /\ post[i].accountIndex < Len(accounts)
        idx == SelectSeq(Indices(Len(post)), changed)
    IN  [k \in 1..Len(idx) |->
            LET i == idx[k]
                account_address == accounts[post[i].accountIndex + 1]
            IN  [mint |-> post[i].mint,
                 toUserAccount   |-> IF postAmt(i) > preAmt(i) THEN account_address ELSE NoneVal,
                 fromUserAccount |-> IF postAmt(i) < preAmt(i) THEN account_address ELSE NoneVal,
                 tokenAmount |-> Abs(postAmt(i) - preAmt(i))]]

parse_native_transfers(tx_data) ==
    LET pre  == tx_data.preBalances
        post == tx_data.postBalances
        accounts == tx_data.accountKeys
        changed(i) == pre[i] # post[i] /\ i <= Len(accounts)
        idx == SelectSeq(Indices(Min(Len(pre), Len(post))), changed)
    IN  [k \in 1..Len(idx) |->
            LET i == idx[k]
            IN  [fromUserAccount |-> IF post[i] < pre[i] THEN accounts[i] ELSE NoneVal,
                 toUserAccount   |-> IF post[i] > pre[i] THEN accounts[i] ELSE NoneVal,
                 amount |-> Abs(post[i] - pre[i])]]

\* what _parse_rpc_transaction returns when an exception is caught
NoneTx == [signature |-> -1, timestamp |-> 0,
           tokenTransfers |-> <<>>, nativeTransfers |-> <<>>]

parse_rpc_transaction(tx_data, signature) ==
    IF ~tx_data.meta_ok
    THEN NoneTx
    ELSE [signature |-> signature,
          timestamp |-> tx_data.blockTime,
          tokenTransfers  |-> parse_token_transfers(tx_data),
          nativeTransfers |-> parse_native_transfers(tx_data)]

(***************************************************************************)
(* Buyer Extractor: _extract_buy_info                                      *)
(***************************************************************************)
\* `usd_amount = largest_sol_payment / 1e9 * 200`, in micro-dollars
usd_of_lamports(lamports) == (lamports \div LAMPORTS_PER_MICROSOL) * SOL_USD

NoBuy == [wallet |-> NoneVal, usd |-> 0]

\* mutant: `>=` keeps the last of several equal payments
RECURSIVE scan_native_last(_, _, _, _)
scan_native_last(native_transfers, i, largest_sol_payment, buyer_wallet) ==
    IF i > Len(native_transfers)
    THEN [largest |-> largest_sol_payment, buyer |-> buyer_wallet]
    ELSE LET sender == native_transfers[i].fromUserAccount
             amount == native_transfers[i].amount
         IN  IF sender = NoneVal
             THEN scan_native_last(native_transfers, i + 1, largest_sol_payment, buyer_wallet)
             ELSE IF amount > DUST_LAMPORTS /\ amount >= largest_sol_payment
                  THEN scan_native_last(native_transfers, i + 1, amount, sender)
                  ELSE scan_native_last(native_transfers, i + 1, largest_sol_payment, buyer_wallet)

\* the loop `for native in native_transfers` from position i on
RECURSIVE scan_native(_, _, _, _)
scan_native(native_transfers, i, largest_sol_payment, buyer_wallet) ==
    IF i > Len(native_transfers)
    THEN [largest |-> largest_sol_payment, buyer |-> buyer_wallet]
    ELSE LET sender == native_transfers[i].fromUserAccount
             amount == native_transfers[i].amount
         IN  IF sender = NoneVal
             THEN scan_native(native_transfers, i + 1, largest_sol_payment, buyer_wallet)
             ELSE IF amount > DUST_LAMPORTS /\ amount > largest_sol_payment
                  THEN scan_native(native_transfers, i + 1, amount, sender)
                  ELSE scan_native(native_transfers, i + 1, largest_sol_payment, buyer_wallet)

\* the loop `for transfer in token_transfers` from position k on
RECURSIVE scan_token_transfers(_, _, _)
scan_token_transfers(tx, mint_address, k) ==
    IF k > Len(tx.tokenTransfers)
    THEN NoBuy
    ELSE LET transfer == tx.tokenTransfers[k]
             found == scan_native(tx.nativeTransfers, 1, 0, NoneVal)
         IN  IF transfer.mint # mint_address
             THEN scan_token_transfers(tx, mint_address, k + 1)
             ELSE IF transfer.toUserAccount = NoneVal
                  THEN scan_token_transfers(tx, mint_address, k + 1)
                  ELSE IF found.buyer # NoneVal /\ found.largest > 0
                       THEN [wallet |-> found.buyer, usd |-> usd_of_lamports(found.largest)]
                       ELSE scan_token_transfers(tx, mint_address, k + 1)

extract_buy_info(tx, mint_address) == scan_token_transfers(tx, mint_address, 1)

(***************************************************************************)
(* The ledger.  The remote endpoint answers each call with raw             *)
(* transactions drawn from a catalogue of payloads:                        *)
(*   raw_buy(t, payers, ui) : at block time t the accounts `payers`        *)
(*   (<<wallet, lamports>> pairs) lose lamports, the pool account T gains  *)
(*   them and the token account of T receives the target mint; ui = FALSE  *)
(*   leaves uiAmount null so that amount / decimals is used.               *)
(***************************************************************************)
RECURSIVE SumAmounts(_, _)
SumAmounts(payers, i) ==
    IF i > Len(payers) THEN 0 ELSE payers[i][2] + SumAmounts(payers, i + 1)

raw_buy(t, payers, ui) ==
    [blockTime |-> t,
     meta_ok |-> TRUE,
     accountKeys   |-> [i \in 1..Len(payers) |-> payers[i][1]] \o <<TokenAccount>>,
     preBalances   |-> [i \in 1..Len(payers) |-> payers[i][2]] \o <<0>>,
     postBalances  |-> [i \in 1..Len(payers) |-> 0] \o <<SumAmounts(payers, 1)>>,
     preTokenBalances  |-> <<>>,
     postTokenBalances |-> <<[accountIndex |-> Len(payers), mint |-> MINT,
                              uiAmount |-> IF ui THEN 7 ELSE NoUi,
                              amount |-> 7000000, decimals |-> 6]>>]

\* a payload whose `meta` is null: `'postTokenBalances' in meta` raises
raw_malformed ==
    [blockTime |-> 1000, meta_ok |-> FALSE, accountKeys |-> <<>>,
     preBalances |-> <<>>, postBalances |-> <<>>,
     preTokenBalances |-> <<>>, postTokenBalances |-> <<>>]

\* 0.125 SOL = $25 and 0.25 SOL = $50, in lamports
USD25 == 125 * MICRO
USD50 == 250 * MICRO

Catalogue ==
    { raw_buy(1000, << <<"A", USD50>> >>, FALSE),
      raw_buy(2000, << <<"B", USD25>> >>, TRUE),
      raw_buy(9000, << <<"A", USD50>> >>, TRUE),
      raw_buy(1000, << <<"S", USD50>> >>, TRUE),
      raw_buy(0,    << <<"B", USD50>> >>, TRUE),
      raw_buy(2000, << <<"A", 50000>>, <<"B", DUST_LAMPORTS>> >>, TRUE),
      raw_malformed }

\* all sequences over S of length lo..hi
SeqsOf(S, lo, hi) == UNION { [1..n -> S] : n \in lo..hi }

\* arguments the analysis is started with
MinUsdChoices == {25, 50}
WindowChoices == {1, 24}

\* settings of the caller (run_token_analysis_sync: max_credits, max_wallets).
\* analyze_token_early_bidders has no parameter for either, so they are no
\* state of the run; the properties about them quantify over these values.
MaxCreditsChoices == {100, 1000}
MaxWalletsChoices == {1, 2, 10}

\* `pagination_token = None`; a token the endpoint returns is the number of
\* transactions it has delivered so far
NoToken == 0

VARIABLES
    \* arguments of analyze_token_early_bidders
    min_usd, time_window_hours, max_transactions,
    \* position in analyze_token_early_bidders
    pc,
    \* get_token_metadata
    token_info, metadata_credits,
    \* _get_earliest_transactions_new
    all_transactions, api_calls, pagination_token, remaining_limit,
    \* _get_earliest_transactions_old
    all_signatures, signature_api_calls, before_signature, total_fetched,
    earliest_signatures, sig_i, transaction_api_calls,
    \* analyze_token_early_bidders
    transactions, transaction_credits, first_tx_time, window_end, buyers, tx_i,
    result,
    \* run_token_analysis_sync, after the analysis returned
    max_wallets, axiom_export,
    \* the job's entry in analysis_jobs, whether db.save_analyzed_token has
    \* returned for it, and how many analysis_complete messages were broadcast
    job_status, token_saved, notifications,
    \* a single call of _extract_buy_info: its argument, its position, its result
    x_tx, x_pc, x_buy,
    \* the transactions the remote endpoint holds for the address, oldest first
    \* (only where the endpoint is modelled as a faithful server)
    ledger,
    \* argument token_creation_time of the two strategies (0 = None; the
    \* analysis always passes None, see get_token_creation_time)
    token_creation_time,
    \* analyses running side by side on the worker threads (only where several
    \* jobs are modelled): per job its position, its arguments with the ledger
    \* the endpoint serves it, and what it returned; per call frame the locals
    \* of the analysis
    job_pc, job_script, job_result, frames,
    \* the token endpoints of the backend: column deleted_at of table
    \* analyzed_tokens per token id, the entry of the response cache under
    \* "tokens_history", and the last request served with its response
    analyzed_tokens, cache, http_response,
    \* the watchlist: the dict monitored_addresses, the content of
    \* settings.DATA_FILE and the last call of the service with its outcome
    monitored_addresses, data_file, watch_result,
    \* GET /api/tokens/history requests that overlap on the event loop: where
    \* each request is, its locals, the entry of cache.pending_requests under
    \* "tokens_history", the futures created for it, and the mutation request
    \* in progress; commit_log holds the history listing after each commit and
    \* returned_version is the number of commits when the last mutation request
    \* returned (history)
    req_pc, req_local, pending_requests, futures, mut_pc, commit_log, returned_version,
    \* ConnectionManager: the list active_connections, the WebSocket objects
    \* that were ever accepted, and the broadcast in progress (its position,
    \* the index of its list iterator, the connection it is sending to, its
    \* local list `disconnected`; as history the connections it called
    \* send_json on, how often, and those registered ever since it began)
    active_connections, ever_connected, bc,
    \* history of the run (not program state):
    \*   answered_credits  sum of the declared costs of the calls issued so far
    \*                     (a call that raises, and a metadata lookup that finds
    \*                     nothing, are declared free by the code: 0)
    \*   efficient_failed  the efficient strategy raised
    \*   raw_count         payloads delivered to the strategy that is running
    \*   normalized_count  those of them that were well-formed
    answered_credits, efficient_failed, raw_count, normalized_count

inputs == <<min_usd, time_window_hours, max_transactions>>
meta_vars == <<token_info, metadata_credits>>
new_vars == <<all_transactions, api_calls, pagination_token, remaining_limit>>
old_vars == <<all_signatures, signature_api_calls, before_signature, total_fetched,
              earliest_signatures, sig_i, transaction_api_calls>>
agg_vars == <<first_tx_time, window_end, buyers, tx_i>>
ret_vars == <<transactions, transaction_credits>>
hist_vars == <<answered_credits, efficient_failed, raw_count, normalized_count>>

runner_vars == <<job_status, token_saved, notifications>>
job_vars == <<max_wallets, axiom_export, runner_vars>>
conc_vars == <<job_pc, job_script, job_result, frames>>
token_vars == <<analyzed_tokens, cache, http_response>>
watch_vars == <<monitored_addresses, data_file, watch_result>>
flight_vars == <<req_pc, req_local, pending_requests, futures, mut_pc, commit_log,
                 returned_version>>
socket_vars == <<active_connections, ever_connected, bc>>
backend_vars == <<token_vars, watch_vars, flight_vars, socket_vars>>
unit_vars == <<x_tx, x_pc, x_buy, ledger, token_creation_time, conc_vars, backend_vars>>

vars == <<inputs, pc, meta_vars, new_vars, old_vars, ret_vars, agg_vars, result,
          job_vars, unit_vars, hist_vars>>

NoResult ==
    [error |-> "", token_info |-> NoneVal, early_bidders |-> <<>>,
     total_unique_buyers |-> 0, total_transactions_analyzed |-> 0,
     api_credits_used |-> 0, first_transaction_time |-> 0, analysis_window_end |-> 0]

\* the token endpoints are not modelled
NoTokens ==
    /\ analyzed_tokens = <<>> /\ cache = <<>> /\ http_response = <<>>

\* the watchlist is not modelled
NoWatchlist ==
    /\ monitored_addresses = <<>> /\ data_file = <<>> /\ watch_result = <<>>

\* no overlapping requests are modelled
NoFlights ==
    /\ req_pc = <<>> /\ req_local = <<>> /\ pending_requests = 0 /\ futures = <<>>
    /\ mut_pc = "idle" /\ commit_log = <<>> /\ returned_version = 0

\* the connection manager is not modelled
NoSockets ==
    /\ active_connections = <<>> /\ ever_connected = {} /\ bc = <<>>

\* the backend endpoints are not modelled
NoBackend == NoTokens /\ NoWatchlist /\ NoFlights /\ NoSockets

\* no job is modelled
NoJobs ==
    /\ job_pc = <<>> /\ job_script = <<>>
    /\ job_result = <<>> /\ frames = <<>>

\* the variables of a run before analyze_token_early_bidders is entered
NothingFetched ==
    /\ token_info = NoneVal /\ metadata_credits = 0
    /\ all_transactions = <<>> /\ api_calls = 0 /\ pagination_token = NoToken
    /\ remaining_limit = 0
    /\ all_signatures = <<>> /\ signature_api_calls = 0 /\ before_signature = 0
    /\ total_fetched = 0 /\ earliest_signatures = <<>> /\ sig_i = 0
    /\ transaction_api_calls = 0
    /\ transactions = <<>> /\ transaction_credits = 0
    /\ first_tx_time = 0 /\ window_end = 0 /\ buyers = <<>> /\ tx_i = 0
    /\ result = NoResult
    /\ max_wallets = 0 /\ axiom_export = <<>>
    /\ token_saved = FALSE /\ notifications = 0
    /\ answered_credits = 0 /\ efficient_failed = FALSE
    /\ raw_count = 0 /\ normalized_count = 0

\* the analysis of a job that its runner has set to `processing` is to begin
NothingRun == NothingFetched /\ job_status = "processing"

Init ==
    /\ min_usd \in MinUsdChoices
    /\ time_window_hours \in WindowChoices
    /\ max_transactions \in 1..MaxLimit
    /\ pc = "metadata"
    /\ NothingRun
    /\ NoBackend
    /\ x_tx = NoneTx /\ x_pc = "unused" /\ x_buy = NoBuy
    /\ NoJobs
    /\ ledger = <<>>
    /\ token_creation_time = 0

(***************************************************************************)
(* get_token_metadata                                                      *)
(***************************************************************************)
\* locals of _get_earliest_transactions_new on entry (get_parsed_transactions
\* with get_earliest=True; get_token_creation_time returns None, 0)
EnterEfficient ==
    /\ all_transactions' = <<>>
    /\ api_calls' = 0
    /\ pagination_token' = NoToken
    /\ remaining_limit' = Min(max_transactions, EfficientCap)
    /\ pc' = "efficient"

\* token-metadata answers with a non-empty result: `return result[0], 1`
MetadataFound ==
    /\ pc = "metadata"
    /\ token_info' = "standard"
    /\ metadata_credits' = 1
    /\ answered_credits' = answered_credits + 1
    /\ EnterEfficient
    /\ UNCHANGED <<inputs, unit_vars, job_vars, old_vars, ret_vars, agg_vars, result,
                   efficient_failed, raw_count, normalized_count>>

\* mutant: after a failed primary lookup the analysis goes on without metadata
MetadataMissing_no_das ==
    /\ pc = "metadata"
    /\ token_info' = NoneVal
    /\ metadata_credits' = 0
    /\ EnterEfficient
    /\ UNCHANGED <<inputs, unit_vars, job_vars, old_vars, ret_vars, agg_vars, result, hist_vars>>

\* token-metadata answers empty, or raises: the DAS lookup is tried next
MetadataMissing ==
    /\ pc = "metadata"
    /\ pc' = "metadata_das"
    /\ UNCHANGED <<inputs, unit_vars, job_vars, meta_vars, new_vars, old_vars, ret_vars, agg_vars, result,
                   hist_vars>>

\* getAsset answers with a result: `return formatted, 1`
DasFound ==
    /\ pc = "metadata_das"
    /\ token_info' = "das"
    /\ metadata_credits' = 1
    /\ answered_credits' = answered_credits + 1
    /\ EnterEfficient
    /\ UNCHANGED <<inputs, unit_vars, job_vars, old_vars, ret_vars, agg_vars, result,
                   efficient_failed, raw_count, normalized_count>>

\* getAsset answers empty, or raises: `return None, 0`
DasMissing ==
    /\ pc = "metadata_das"
    /\ token_info' = NoneVal
    /\ metadata_credits' = 0
    /\ EnterEfficient
    /\ UNCHANGED <<inputs, unit_vars, job_vars, old_vars, ret_vars, agg_vars, result, hist_vars>>

(***************************************************************************)
(* _get_earliest_transactions_new                                          *)
(***************************************************************************)
\* the locals of the two strategies do not outlive the call
NewLocalsGone ==
    /\ all_transactions' = <<>>
    /\ api_calls' = 0
    /\ pagination_token' = NoToken
    /\ remaining_limit' = 0

OldLocalsGone ==
    /\ all_signatures' = <<>>
    /\ signature_api_calls' = 0
    /\ before_signature' = 0
    /\ total_fetched' = 0
    /\ earliest_signatures' = <<>>
    /\ sig_i' = 0
    /\ transaction_api_calls' = 0

\* number of well-formed payloads of a page
WellFormed(batch) == Cardinality({k \in 1..Len(batch) : batch[k].meta_ok})

\* mutant: the first payload that fails to normalize ends the loop
RECURSIVE parse_all_abort(_, _, _)
parse_all_abort(batch, first_signature, k) ==
    IF k > Len(batch)
    THEN <<>>
    ELSE LET parsed_tx == parse_rpc_transaction(batch[k], first_signature + k - 1)
         IN  IF parsed_tx = NoneTx THEN <<>>
             ELSE <<parsed_tx>> \o parse_all_abort(batch, first_signature, k + 1)

\* `for tx_data in transactions: parsed_tx = ...; if parsed_tx: append`
RECURSIVE parse_all(_, _, _)
parse_all(batch, first_signature, k) ==
    IF k > Len(batch)
    THEN <<>>
    ELSE LET parsed_tx == parse_rpc_transaction(batch[k], first_signature + k - 1)
         IN  (IF parsed_tx = NoneTx THEN <<>> ELSE <<parsed_tx>>)
             \o parse_all(batch, first_signature, k + 1)

\* `return all_transactions, total_credits` of the efficient strategy
ReturnFromEfficient(txs, calls) ==
    /\ transactions' = txs
    /\ transaction_credits' = calls * BATCH_CALL_CREDITS
    /\ pc' = "retrieved"
    /\ NewLocalsGone

\* mutant: the handler re-raises instead of falling back
on_efficient_exception_reraise == "raised"

\* `except Exception: return self._get_earliest_transactions_old(...)`
on_efficient_exception == "old_signatures"

\* mutant: the old method goes on from what the failed attempt had collected
fallback_transactions_resumed(partial) == partial

\* the old method is called with address, limit and token_creation_time only
\* and builds its own list (`all_transactions = []`)
fallback_transactions(partial) == <<>>

\* the call raises: all_transactions and api_calls of this strategy are dropped
\* and the old method starts with its own empty locals
EfficientRaises ==
    /\ pc = "efficient"
    /\ efficient_failed' = TRUE
    /\ raw_count' = 0
    /\ normalized_count' = 0
    /\ pc' = on_efficient_exception
    /\ all_transactions' = fallback_transactions(all_transactions)
    /\ api_calls' = 0
    /\ pagination_token' = NoToken
    /\ remaining_limit' = 0
    /\ OldLocalsGone
    /\ UNCHANGED <<inputs, unit_vars, job_vars, meta_vars, ret_vars, agg_vars, result, answered_credits>>

\* the call answers with an empty result: `if not result: break`
EfficientEmpty ==
    /\ pc = "efficient"
    /\ answered_credits' = answered_credits + BATCH_CALL_CREDITS
    /\ ReturnFromEfficient(all_transactions, api_calls + 1)
    /\ UNCHANGED <<inputs, unit_vars, job_vars, meta_vars, old_vars, agg_vars, result,
                   efficient_failed, raw_count, normalized_count>>

\* `remaining_limit -= len(transactions)`
\* mutant: the remaining count is not lowered
remaining_after_stuck(remaining, n) == remaining

remaining_after(remaining, n) == remaining - n

\* mutant: the token of the previous batch is not sent
request_token_none(token) == NoToken

\* `if pagination_token: params[1]["paginationToken"] = pagination_token`
request_token(token) == token

\* mutant: each call asks for one transaction
batch_limit_of_one(remaining) == Min(remaining, 1)

\* `batch_limit = min(remaining_limit, 100)`
batch_limit_of(remaining) == Min(remaining, BatchPage)

\* one iteration of `while remaining_limit > 0` whose call answered with the
\* page `batch` and the pagination token `token`
EfficientStep(batch, token) ==
    LET batch_limit == batch_limit_of(remaining_limit)
        first_signature == raw_count + 1
        txs == all_transactions \o parse_all(batch, first_signature, 1)
        remaining == remaining_after(remaining_limit, Len(batch))
        stop == \/ token = NoToken \/ Len(batch) = 0
                \/ Len(batch) < batch_limit
                \/ ~(remaining > 0)
    IN  /\ raw_count' = raw_count + Len(batch)
        /\ normalized_count' = normalized_count + WellFormed(batch)
        /\ IF stop
           THEN ReturnFromEfficient(txs, api_calls + 1)
           ELSE /\ all_transactions' = txs
                /\ api_calls' = api_calls + 1
                /\ pagination_token' = token
                /\ remaining_limit' = remaining
                /\ pc' = "efficient"
                /\ UNCHANGED ret_vars
        /\ answered_credits' = answered_credits + BATCH_CALL_CREDITS

\* the call answers with a page of at most batch_limit transactions and
\* possibly a pagination token
EfficientBatch ==
    /\ pc = "efficient"
    /\ \E batch \in SeqsOf(Catalogue, 0, batch_limit_of(remaining_limit)) :
          \E token \in {NoToken, raw_count + Len(batch)} :
              EfficientStep(batch, token)
    /\ UNCHANGED <<inputs, unit_vars, job_vars, meta_vars, old_vars, agg_vars, result, efficient_failed>>

(***************************************************************************)
(* _get_earliest_transactions_old  (token_creation_time is None: the       *)
(* caller's get_token_creation_time always returns None, 0)                *)
(***************************************************************************)
Reverse(seq) == [i \in 1..Len(seq) |-> seq[Len(seq) + 1 - i]]

\* `all_signatures[:limit]`
Take(seq, n) == SubSeq(seq, 1, Min(n, Len(seq)))

\* signatures are numbered by age: the newest has the largest number
NewestSignature == SafetyCap + SigPage

\* `return all_transactions, total_credits` of the old method
ReturnFromOld(txs, sig_calls, tx_calls) ==
    /\ transactions' = txs
    /\ transaction_credits' = sig_calls + tx_calls
    /\ pc' = "retrieved"
    /\ all_transactions' = <<>>
    /\ OldLocalsGone

\* getSignaturesForAddress raises: the outer handler returns [], 0
OldSignaturesRaise ==
    /\ pc = "old_signatures"
    /\ transactions' = <<>>
    /\ transaction_credits' = 0
    /\ pc' = "retrieved"
    /\ OldLocalsGone
    /\ UNCHANGED <<inputs, unit_vars, job_vars, meta_vars, new_vars, agg_vars, result, hist_vars>>

\* `for sig in signatures` under the creation-time filter, from position k on:
\* a signature at or after the creation time is kept, the first one before it
\* ends the loop, one without blockTime is passed over
RECURSIVE filter_signatures(_, _, _)
filter_signatures(signatures, times, k) ==
    IF k > Len(signatures) THEN <<>>
    ELSE IF times[k] # 0 /\ times[k] >= token_creation_time
         THEN <<signatures[k]>> \o filter_signatures(signatures, times, k + 1)
    ELSE IF times[k] # 0 /\ times[k] < token_creation_time
         THEN <<>>
    ELSE filter_signatures(signatures, times, k + 1)

\* `if total_fetched >= 50000: break`
reached_safety_cap(fetched) == fetched >= SafetyCap

\* one iteration of `while True` whose call answered with `signatures`
\* (newest first, `times` their blockTime, 0 = null); when the loop ends the
\* list is reversed and its first `limit` entries are kept for the detail
\* fetches
OldSignaturesStep(signatures, times) ==
    LET n == Len(signatures)
        filtering == token_creation_time # 0
        filtered_sigs == filter_signatures(signatures, times, 1)
        found_older_than_creation ==
            \E k \in 1..n : times[k] # 0 /\ times[k] < token_creation_time
        added == IF filtering THEN filtered_sigs ELSE signatures
        sigs == all_signatures \o added
        fetched == total_fetched + Len(added)
        filter_stop == /\ filtering
                       /\ \/ found_older_than_creation
                          \/ (Len(filtered_sigs) = 0 /\ before_signature # 0)
        stop == \/ n = 0
                \/ filter_stop
                \/ n < SigPage
                \/ reached_safety_cap(fetched)
        earliest == Take(Reverse(sigs), max_transactions)
    IN  /\ IF stop /\ Len(earliest) = 0
           THEN ReturnFromOld(<<>>, signature_api_calls + 1, 0)
           ELSE /\ signature_api_calls' = signature_api_calls + 1
                /\ all_signatures' = sigs
                /\ total_fetched' = fetched
                /\ before_signature' = IF n < SigPage \/ filter_stop
                                       THEN before_signature
                                       ELSE signatures[n]
                /\ earliest_signatures' = IF stop THEN earliest ELSE <<>>
                /\ sig_i' = IF stop THEN 1 ELSE 0
                /\ transaction_api_calls' = 0
                /\ pc' = IF stop THEN "old_details" ELSE "old_signatures"
                /\ UNCHANGED <<all_transactions, ret_vars>>
        /\ answered_credits' = answered_credits + 1

\* getSignaturesForAddress answers with n signatures, newest first
\* (n = 0: `if not signatures: break`)
OldSignaturesBatch ==
    /\ pc = "old_signatures"
    /\ \E n \in 0..SigPage :
          OldSignaturesStep([k \in 1..n |-> NewestSignature - total_fetched - (k - 1)],
                            [k \in 1..n |-> 0])
    /\ UNCHANGED <<inputs, unit_vars, job_vars, meta_vars, api_calls, pagination_token, remaining_limit,
                   agg_vars, result, efficient_failed, raw_count, normalized_count>>

\* after the detail fetch of earliest_signatures[sig_i]
NextDetail(txs, tx_calls) ==
    IF sig_i = Len(earliest_signatures)
    THEN ReturnFromOld(txs, signature_api_calls, tx_calls)
    ELSE /\ all_transactions' = txs
         /\ transaction_api_calls' = tx_calls
         /\ sig_i' = sig_i + 1
         /\ pc' = "old_details"
         /\ UNCHANGED <<all_signatures, signature_api_calls, before_signature,
                        total_fetched, earliest_signatures, ret_vars>>

\* getTransaction raises: `except Exception: continue` (not counted)
OldDetailRaises ==
    /\ pc = "old_details"
    /\ NextDetail(all_transactions, transaction_api_calls)
    /\ UNCHANGED <<inputs, unit_vars, job_vars, meta_vars, api_calls, pagination_token, remaining_limit,
                   agg_vars, result, hist_vars>>

\* getTransaction answers with null: counted, nothing appended
OldDetailEmpty ==
    /\ pc = "old_details"
    /\ answered_credits' = answered_credits + 1
    /\ NextDetail(all_transactions, transaction_api_calls + 1)
    /\ UNCHANGED <<inputs, unit_vars, job_vars, meta_vars, api_calls, pagination_token, remaining_limit,
                   agg_vars, result, efficient_failed, raw_count, normalized_count>>

\* one iteration of `for i, sig_obj in enumerate(earliest_signatures)` whose
\* getTransaction answered with the payload tx_data
OldDetailStep(tx_data) ==
    /\ NextDetail(all_transactions
                    \o parse_all(<<tx_data>>, earliest_signatures[sig_i], 1),
                  transaction_api_calls + 1)
    /\ normalized_count' = normalized_count + WellFormed(<<tx_data>>)
    /\ raw_count' = raw_count + 1
    /\ answered_credits' = answered_credits + 1

\* getTransaction answers with a payload
OldDetail ==
    /\ pc = "old_details"
    /\ \E tx_data \in Catalogue : OldDetailStep(tx_data)
    /\ UNCHANGED <<inputs, unit_vars, job_vars, meta_vars, api_calls, pagination_token, remaining_limit,
                   agg_vars, result, efficient_failed>>

(***************************************************************************)
(* analyze_token_early_bidders, after the transactions are retrieved       *)
(***************************************************************************)
\* `for tx in transactions: if tx.get('timestamp'): ...; break`  (0 = none found)
RECURSIVE first_timestamp(_, _)
first_timestamp(txs, k) ==
    IF k > Len(txs) THEN 0
    ELSE IF txs[k].timestamp # 0 THEN txs[k].timestamp
    ELSE first_timestamp(txs, k + 1)

\* the error strings of the two no-data results
NoTransactionsError == "No transactions found"
NoTimestampError == "Could not determine first transaction time"

\* mutant: the error result forgets the credits of the retrieval
error_result_no_credits(message, info, meta_credits, tx_credits) ==
    [NoResult EXCEPT !.error = message, !.token_info = info,
                     !.api_credits_used = meta_credits]

\* the two early `return {... 'error': ...}` of the analysis
error_result(message, info, meta_credits, tx_credits) ==
    [NoResult EXCEPT !.error = message, !.token_info = info,
                     !.api_credits_used = meta_credits + 0 + tx_credits]

CheckTransactions ==
    /\ pc = "retrieved"
    /\ IF Len(transactions) = 0
       THEN /\ result' = error_result(NoTransactionsError, token_info,
                                      metadata_credits, transaction_credits)
            /\ pc' = "done"
            /\ UNCHANGED agg_vars
       ELSE IF first_timestamp(transactions, 1) = 0
       THEN /\ result' = error_result(NoTimestampError,
                                      token_info, metadata_credits, transaction_credits)
            /\ pc' = "done"
            /\ UNCHANGED agg_vars
       ELSE /\ first_tx_time' = first_timestamp(transactions, 1)
            /\ window_end' = first_timestamp(transactions, 1)
                             + time_window_hours * SECONDS_PER_HOUR
            /\ buyers' = <<>>
            /\ tx_i' = 1
            /\ pc' = "aggregate"
            /\ UNCHANGED result
    /\ UNCHANGED <<inputs, unit_vars, job_vars, meta_vars, new_vars, old_vars, ret_vars, hist_vars>>

\* position of wallet in the buyers dict (0 = absent); the dict keeps insertion order
buyer_index(bs, wallet) ==
    IF \E k \in 1..Len(bs) : bs[k].wallet_address = wallet
    THEN CHOOSE k \in 1..Len(bs) : bs[k].wallet_address = wallet
    ELSE 0

\* mutant: the time of the latest event is kept
keep_earliest_overwrite(tx_time, first_buy_time) == tx_time

\* `if tx_time < buyers[buyer_wallet]['first_buy_time']:` ... `= tx_time`
keep_earliest(tx_time, first_buy_time) ==
    IF tx_time < first_buy_time THEN tx_time ELSE first_buy_time

\* mutant: the time of the first event met is kept, an earlier one does not lower it
upsert_buyer_keep_first(bs, wallet, usd_amount, tx_time) ==
    LET k == buyer_index(bs, wallet)
        created == IF k = 0
                   THEN Append(bs, [wallet_address |-> wallet, first_buy_time |-> tx_time,
                                    total_usd |-> 0, transaction_count |-> 0])
                   ELSE bs
        j == IF k = 0 THEN Len(created) ELSE k
    IN  [created EXCEPT ![j] =
            [@ EXCEPT !.total_usd = @ + usd_amount,
                      !.transaction_count = @ + 1]]

\* lines 723-736: create the entry if absent, add the event, keep the earliest time
upsert_buyer(bs, wallet, usd_amount, tx_time) ==
    LET k == buyer_index(bs, wallet)
        created == IF k = 0
                   THEN Append(bs, [wallet_address |-> wallet, first_buy_time |-> tx_time,
                                    total_usd |-> 0, transaction_count |-> 0])
                   ELSE bs
        j == IF k = 0 THEN Len(created) ELSE k
    IN  [created EXCEPT ![j] =
            [@ EXCEPT !.total_usd = @ + usd_amount,
                      !.transaction_count = @ + 1,
                      !.first_buy_time = keep_earliest(tx_time, @)]]

\* mutant: every buy event is counted, the minimum is not applied
process_transaction_no_minimum(bs, tx, w_end, minimum) ==
    LET buy == extract_buy_info(tx, MINT)
    IN  IF tx.timestamp = 0 \/ tx.timestamp > w_end THEN bs
        ELSE IF buy.wallet = NoneVal \/ ~is_wallet_on_curve(buy.wallet) THEN bs
        ELSE upsert_buyer(bs, buy.wallet, buy.usd, tx.timestamp)

\* one iteration of `for tx in transactions` (lines 692-736)
process_transaction(bs, tx, w_end, minimum) ==
    IF tx.timestamp = 0
    THEN bs
    ELSE IF tx.timestamp > w_end
    THEN bs
    ELSE LET buy == extract_buy_info(tx, MINT)
         IN  IF ~(buy.wallet # NoneVal /\ buy.usd # 0)
             THEN bs
             ELSE IF ~is_wallet_on_curve(buy.wallet)
             THEN bs
             ELSE IF buy.usd >= minimum * MICRO
             THEN upsert_buyer(bs, buy.wallet, buy.usd, tx.timestamp)
             ELSE bs

\* mutant: a transaction after the window ends the scan (break)
next_position_break(tx, i, n, w_end) ==
    IF tx.timestamp # 0 /\ tx.timestamp > w_end THEN n + 1 ELSE i + 1

\* where the loop goes after transaction i of n: `continue` in every branch
next_position(tx, i, n, w_end) == i + 1

AggregateStep ==
    /\ pc = "aggregate"
    /\ tx_i <= Len(transactions)
    /\ buyers' = process_transaction(buyers, transactions[tx_i], window_end, min_usd)
    /\ tx_i' = next_position(transactions[tx_i], tx_i, Len(transactions), window_end)
    /\ UNCHANGED <<inputs, unit_vars, job_vars, pc, meta_vars, new_vars, old_vars, ret_vars,
                   first_tx_time, window_end, result, hist_vars>>

\* list.sort(key=first_buy_time) is stable: x goes after every entry that is not later
RECURSIVE insert_sorted(_, _)
insert_sorted(sorted, x) ==
    IF Len(sorted) = 0
    THEN <<x>>
    ELSE IF sorted[Len(sorted)].first_buy_time <= x.first_buy_time
         THEN Append(sorted, x)
         ELSE Append(insert_sorted(SubSeq(sorted, 1, Len(sorted) - 1), x),
                     sorted[Len(sorted)])

RECURSIVE sort_prefix(_, _)
sort_prefix(seq, n) ==
    IF n = 0 THEN <<>> ELSE insert_sorted(sort_prefix(seq, n - 1), seq[n])

\* mutant: the list is returned in dict (insertion) order
sort_by_first_buy_time_unsorted(bidders) == bidders

\* `early_bidders.sort(key=lambda x: x['first_buy_time'])`
sort_by_first_buy_time(bidders) == sort_prefix(bidders, Len(bidders))

\* `bidder['average_buy_usd'] = bidder['total_usd'] / bidder['transaction_count']`
with_average(bidder) ==
    [wallet_address |-> bidder.wallet_address,
     first_buy_time |-> bidder.first_buy_time,
     total_usd |-> bidder.total_usd,
     transaction_count |-> bidder.transaction_count,
     average_buy_usd |-> bidder.total_usd \div bidder.transaction_count]

\* lines 740-763
Finish ==
    /\ pc = "aggregate"
    /\ tx_i > Len(transactions)
    /\ LET early_bidders ==
              sort_by_first_buy_time([k \in 1..Len(buyers) |-> with_average(buyers[k])])
       IN  result' = [error |-> "",
                      token_info |-> token_info,
                      early_bidders |-> early_bidders,
                      total_unique_buyers |-> Len(early_bidders),
                      total_transactions_analyzed |-> Len(transactions),
                      api_credits_used |-> metadata_credits + 0 + transaction_credits,
                      first_transaction_time |-> first_tx_time,
                      analysis_window_end |-> window_end]
    /\ pc' = "done"
    /\ UNCHANGED <<inputs, unit_vars, job_vars, meta_vars, new_vars, old_vars, ret_vars, agg_vars, hist_vars>>

(***************************************************************************)
(* run_token_analysis_sync after analyzer.analyze_token returned, and      *)
(* generate_axiom_export.  max_wallets is the caller's walletCount         *)
(* setting; nothing reads it before this point, so it is drawn here.       *)
(***************************************************************************)
\* Python round() of an amount in micro-dollars to whole dollars (half to even)
round_usd(micro) ==
    LET q == micro \div MICRO
        r == micro % MICRO
    IN  IF 2 * r > MICRO \/ (2 * r = MICRO /\ q % 2 = 1) THEN q + 1 ELSE q

\* mutant: the slice keeps the last `limit` entries
generate_axiom_export_last(early_bidders, limit) ==
    LET n == Min(limit, Len(early_bidders))
        skip == Len(early_bidders) - n
    IN  [k \in 1..n |->
            [trackedWalletAddress |-> early_bidders[skip + k].wallet_address,
             index |-> k,
             first_buy_usd |-> round_usd(early_bidders[skip + k].total_usd)]]

\* `for index, bidder in enumerate(early_bidders[:limit], start=1)`
generate_axiom_export(early_bidders, limit) ==
    [k \in 1..Min(limit, Len(early_bidders)) |->
        [trackedWalletAddress |-> early_bidders[k].wallet_address,
         index |-> k,
         first_buy_usd |-> round_usd(early_bidders[k].total_usd)]]

\* `if len(early_bidders) == 0 and token_info is None:` ... `return`
SkipExport ==
    /\ pc = "done"
    /\ Len(result.early_bidders) = 0 /\ result.token_info = NoneVal
    /\ job_status' = "completed"
    /\ pc' = "no_data"
    /\ UNCHANGED <<inputs, unit_vars, max_wallets, axiom_export, token_saved, notifications,
                   meta_vars, new_vars, old_vars, ret_vars, agg_vars, result, hist_vars>>

ExportResult ==
    /\ pc = "done"
    /\ ~(Len(result.early_bidders) = 0 /\ result.token_info = NoneVal)
    /\ \E limit \in MaxWalletsChoices :
          /\ max_wallets' = limit
          /\ axiom_export' = generate_axiom_export(result.early_bidders, limit)
    /\ pc' = "exported"
    /\ UNCHANGED <<inputs, unit_vars, runner_vars, meta_vars, new_vars, old_vars, ret_vars,
                   agg_vars, result, hist_vars>>

Next ==
    \/ MetadataFound \/ MetadataMissing \/ DasFound \/ DasMissing
    \/ EfficientRaises \/ EfficientEmpty \/ EfficientBatch
    \/ OldSignaturesRaise \/ OldSignaturesBatch
    \/ OldDetailRaises \/ OldDetailEmpty \/ OldDetail
    \/ CheckTransactions \/ AggregateStep \/ Finish
    \/ SkipExport \/ ExportResult

Spec == Init /\ [][Next]_vars

(***************************************************************************)
(* _extract_buy_info on its own: one call on a normalized transaction      *)
(* drawn from all transactions with at most MaxNative native transfers and *)
(* at most MaxTokenTransfers token transfers.                              *)
(***************************************************************************)
MaxNative == 3
MaxTokenTransfers == 2

\* lamport amounts around the dust threshold and above it
NativeAmounts == {DUST_LAMPORTS \div 2, DUST_LAMPORTS, DUST_LAMPORTS + 1000,
                  20 * DUST_LAMPORTS}

NativeTransferChoices ==
    { [fromUserAccount |-> f,
       toUserAccount   |-> IF f = NoneVal THEN TokenAccount ELSE NoneVal,
       amount |-> a] : f \in {"A", "B", NoneVal}, a \in NativeAmounts }

TokenTransferChoices ==
    { [mint |-> m, toUserAccount |-> t,
       fromUserAccount |-> IF t = NoneVal THEN TokenAccount ELSE NoneVal,
       tokenAmount |-> 7] : m \in {MINT, OTHER_MINT}, t \in {TokenAccount, NoneVal} }

ExtractInit ==
    /\ \E tt \in SeqsOf(TokenTransferChoices, 0, MaxTokenTransfers),
          nt \in SeqsOf(NativeTransferChoices, 0, MaxNative) :
            x_tx = [signature |-> 1, timestamp |-> 1000,
                    tokenTransfers |-> tt, nativeTransfers |-> nt]
    /\ x_pc = "ready"
    /\ x_buy = NoBuy
    /\ NoJobs
    /\ ledger = <<>>
    /\ token_creation_time = 0
    /\ min_usd = 50 /\ time_window_hours = 1 /\ max_transactions = 1
    /\ pc = "idle"
    /\ NothingRun
    /\ NoBackend

Extract ==
    /\ x_pc = "ready"
    /\ x_buy' = extract_buy_info(x_tx, MINT)
    /\ x_pc' = "extracted"
    /\ UNCHANGED <<x_tx, ledger, token_creation_time, conc_vars, backend_vars, inputs, pc, meta_vars, new_vars, old_vars, ret_vars, agg_vars,
                   result, job_vars, hist_vars>>

ExtractNext == Extract

ExtractSpec == ExtractInit /\ [][ExtractNext]_vars

(***************************************************************************)
(* _get_earliest_transactions_new against a faithful endpoint: it holds    *)
(* `ledger`, answers a call with the page that follows the token it is     *)
(* sent, and returns a token (the position reached) while transactions     *)
(* remain; with a full last page it may or may not return one.  No call    *)
(* raises.                                                                 *)
(***************************************************************************)
MaxLedger == 4

EfficientInit ==
    /\ ledger \in SeqsOf(Catalogue, 0, MaxLedger)
    /\ token_creation_time = 0
    /\ max_transactions \in 1..(EfficientCap + 1)
    /\ min_usd = 50 /\ time_window_hours = 1
    /\ pc = "get_parsed_transactions"
    /\ NothingRun
    /\ NoBackend
    /\ x_tx = NoneTx /\ x_pc = "unused" /\ x_buy = NoBuy
    /\ NoJobs

\* get_parsed_transactions(get_earliest=True) calls the efficient strategy
CallEfficient ==
    /\ pc = "get_parsed_transactions"
    /\ EnterEfficient
    /\ UNCHANGED <<inputs, unit_vars, job_vars, meta_vars, old_vars, ret_vars, agg_vars,
                   result, hist_vars>>

FaithfulBatch ==
    /\ pc = "efficient"
    /\ LET start == request_token(pagination_token)
           last == Min(start + batch_limit_of(remaining_limit), Len(ledger))
           batch == SubSeq(ledger, start + 1, last)
           tokens == IF last < Len(ledger) THEN {last}
                     ELSE IF Len(batch) = batch_limit_of(remaining_limit) /\ last > 0
                          THEN {NoToken, last}
                          ELSE {NoToken}
       IN  \E token \in tokens : EfficientStep(batch, token)
    /\ UNCHANGED <<inputs, unit_vars, job_vars, meta_vars, old_vars, agg_vars, result,
                   efficient_failed>>

EfficientNext == CallEfficient \/ FaithfulBatch

EfficientSpec == EfficientInit /\ [][EfficientNext]_vars

(***************************************************************************)
(* One invocation of _get_earliest_transactions_new for every limit up to  *)
(* one above the cap, against an endpoint that answers each call with any  *)
(* page of at most the size asked for, with or without a pagination token, *)
(* with an empty result, or with an error.  The invocation ends when it    *)
(* returns or when its handler hands over to the old method.               *)
(***************************************************************************)
BatchInit ==
    /\ ledger = <<>>
    /\ token_creation_time = 0
    /\ max_transactions \in 1..(EfficientCap + 1)
    /\ min_usd = 50 /\ time_window_hours = 1
    /\ pc = "get_parsed_transactions"
    /\ NothingRun
    /\ NoBackend
    /\ x_tx = NoneTx /\ x_pc = "unused" /\ x_buy = NoBuy
    /\ NoJobs

BatchNext == CallEfficient \/ EfficientBatch \/ EfficientEmpty \/ EfficientRaises

BatchSpec == BatchInit /\ [][BatchNext]_vars

\* every call of the endpoint returns or raises
BatchLiveSpec == BatchSpec /\ WF_vars(BatchNext)

(***************************************************************************)
(* _get_earliest_transactions_old against a faithful endpoint: it holds    *)
(* `ledger` in chronological order, a signature is the position of its     *)
(* transaction in the ledger, getSignaturesForAddress answers with the     *)
(* page of signatures just below `before`, newest first, each with the     *)
(* blockTime of its transaction (0 = null), and getTransaction answers     *)
(* with the transaction.  No call raises.                                  *)
(***************************************************************************)
MaxOldLedger == 6

OldCatalogue ==
    { raw_buy(1000, << <<"A", USD50>> >>, FALSE),
      raw_buy(2000, << <<"B", USD25>> >>, TRUE),
      raw_buy(0,    << <<"B", USD50>> >>, TRUE),
      raw_malformed }

\* creation times the caller may pass: None, or a time between the block times
CreationTimeChoices == {0, 1500}

\* block times, where present, do not decrease along the ledger
Chronological(l) ==
    \A i, j \in 1..Len(l) :
        (i < j /\ l[i].blockTime # 0 /\ l[j].blockTime # 0)
            => l[i].blockTime <= l[j].blockTime

OldInit ==
    /\ ledger \in { l \in SeqsOf(OldCatalogue, 0, MaxOldLedger) : Chronological(l) }
    /\ token_creation_time \in CreationTimeChoices
    /\ max_transactions \in 1..MaxLimit
    /\ min_usd = 50 /\ time_window_hours = 1
    /\ pc = "get_earliest_transactions_old"
    /\ NothingRun
    /\ NoBackend
    /\ x_tx = NoneTx /\ x_pc = "unused" /\ x_buy = NoBuy
    /\ NoJobs

\* the locals of the old method on entry
CallOld ==
    /\ pc = "get_earliest_transactions_old"
    /\ pc' = "old_signatures"
    /\ OldLocalsGone
    /\ UNCHANGED <<inputs, unit_vars, job_vars, meta_vars, new_vars, ret_vars, agg_vars,
                   result, hist_vars>>

\* `if before_signature: params[1]["before"] = before_signature`
before_param(before) == before

FaithfulSignatures ==
    /\ pc = "old_signatures"
    /\ LET top == IF before_param(before_signature) = 0 THEN Len(ledger)
                  ELSE before_param(before_signature) - 1
           n == Min(SigPage, top)
           signatures == [k \in 1..n |-> top - (k - 1)]
           times == [k \in 1..n |-> ledger[signatures[k]].blockTime]
       IN  OldSignaturesStep(signatures, times)
    /\ UNCHANGED <<inputs, unit_vars, job_vars, meta_vars, api_calls, pagination_token,
                   remaining_limit, agg_vars, result, efficient_failed, raw_count,
                   normalized_count>>

FaithfulDetail ==
    /\ pc = "old_details"
    /\ OldDetailStep(ledger[earliest_signatures[sig_i]])
    /\ UNCHANGED <<inputs, unit_vars, job_vars, meta_vars, api_calls, pagination_token,
                   remaining_limit, agg_vars, result, efficient_failed>>

OldNext == CallOld \/ FaithfulSignatures \/ FaithfulDetail

OldSpec == OldInit /\ [][OldNext]_vars

(***************************************************************************)
(* Several analyses at once.  run_token_analysis_sync runs on a thread of  *)
(* ANALYSIS_EXECUTOR; every job constructs its own TokenAnalyzer, hence    *)
(* its own HeliusAPI, and analyze_token_early_bidders keeps all it         *)
(* computes in the locals of its call.  A job is given its arguments and   *)
(* the ledger the endpoint serves it from (job_script); the endpoint is    *)
(* faithful and returns a pagination token exactly while transactions      *)
(* remain; the metadata lookup either succeeds at once or finds nothing.   *)
(* Threads are interleaved between any two steps.                          *)
(***************************************************************************)
Jobs == {1, 2}

MaxJobLedger == 3

JobCatalogue ==
    { raw_buy(1000, << <<"A", USD50>> >>, FALSE),
      raw_buy(2000, << <<"B", USD25>> >>, TRUE) }

Scripts ==
    [found : BOOLEAN, min_usd : {25}, time_window_hours : {1},
     max_transactions : {MaxLimit},
     ledger : SeqsOf(JobCatalogue, 0, MaxJobLedger)]

\* the locals of a call of analyze_token_early_bidders before its first statement
NewFrame ==
    [token_info |-> NoneVal, metadata_credits |-> 0,
     all_transactions |-> <<>>, api_calls |-> 0, pagination_token |-> NoToken,
     remaining_limit |-> 0, transactions |-> <<>>, transaction_credits |-> 0,
     first_tx_time |-> 0, window_end |-> 0, buyers |-> <<>>, tx_i |-> 1,
     retrieved |-> FALSE]

\* mutant: the locals of every analysis are kept in one shared place
frame_shared(job) == 1

\* the call frame (and the analyzer) of a job: `analyzer = TokenAnalyzer(...)`
\* is constructed inside the job, the analysis works on the locals of its call
frame_of(job) == job

\* get_token_metadata, then the entry of _get_earliest_transactions_new
metadata_step(f, script) ==
    [f EXCEPT !.token_info = IF script.found THEN "standard" ELSE NoneVal,
              !.metadata_credits = IF script.found THEN 1 ELSE 0,
              !.all_transactions = <<>>,
              !.api_calls = 0,
              !.pagination_token = NoToken,
              !.remaining_limit = Min(script.max_transactions, EfficientCap)]

\* one iteration of `while remaining_limit > 0` against the job's ledger
fetch_step(f, script) ==
    LET batch_limit == batch_limit_of(f.remaining_limit)
        start == request_token(f.pagination_token)
        last == Min(start + batch_limit, Len(script.ledger))
        batch == SubSeq(script.ledger, start + 1, last)
        token == IF last < Len(script.ledger) THEN last ELSE NoToken
        txs == f.all_transactions \o parse_all(batch, start + 1, 1)
        remaining == remaining_after(f.remaining_limit, Len(batch))
        stop == \/ token = NoToken \/ Len(batch) = 0
                \/ Len(batch) < batch_limit
                \/ ~(remaining > 0)
    IN  IF stop
        THEN [f EXCEPT !.transactions = txs,
                       !.transaction_credits = (f.api_calls + 1) * BATCH_CALL_CREDITS,
                       !.retrieved = TRUE]
        ELSE [f EXCEPT !.all_transactions = txs,
                       !.api_calls = f.api_calls + 1,
                       !.pagination_token = token,
                       !.remaining_limit = remaining]

\* the analysis has nothing to aggregate: one of its two early returns applies
no_data(f) ==
    Len(f.transactions) = 0 \/ first_timestamp(f.transactions, 1) = 0

early_return(f) ==
    error_result(IF Len(f.transactions) = 0 THEN NoTransactionsError
                 ELSE NoTimestampError,
                 f.token_info, f.metadata_credits, f.transaction_credits)

\* lines 670-690: the window is fixed and the aggregation starts
window_step(f, script) ==
    [f EXCEPT !.first_tx_time = first_timestamp(f.transactions, 1),
              !.window_end = first_timestamp(f.transactions, 1)
                             + script.time_window_hours * SECONDS_PER_HOUR,
              !.buyers = <<>>,
              !.tx_i = 1]

\* one iteration of `for tx in transactions`
aggregate_step(f, script) ==
    [f EXCEPT !.buyers = process_transaction(f.buyers, f.transactions[f.tx_i],
                                             f.window_end, script.min_usd),
              !.tx_i = next_position(f.transactions[f.tx_i], f.tx_i,
                                     Len(f.transactions), f.window_end)]

\* lines 740-763: the value the analysis returns
final_result(f) ==
    LET early_bidders ==
           sort_by_first_buy_time([k \in 1..Len(f.buyers) |-> with_average(f.buyers[k])])
    IN  [error |-> "",
         token_info |-> f.token_info,
         early_bidders |-> early_bidders,
         total_unique_buyers |-> Len(early_bidders),
         total_transactions_analyzed |-> Len(f.transactions),
         api_credits_used |-> f.metadata_credits + 0 + f.transaction_credits,
         first_transaction_time |-> f.first_tx_time,
         analysis_window_end |-> f.window_end]

ConcInit ==
    /\ job_script \in [Jobs -> Scripts]
    /\ job_pc = [j \in Jobs |-> "queued"]
    /\ job_result = [j \in Jobs |-> NoResult]
    /\ frames = [j \in Jobs |-> NewFrame]
    /\ ledger = <<>> /\ token_creation_time = 0
    /\ x_tx = NoneTx /\ x_pc = "unused" /\ x_buy = NoBuy
    /\ min_usd = 50 /\ time_window_hours = 1 /\ max_transactions = MaxLimit
    /\ pc = "idle"
    /\ NothingRun
    /\ NoBackend

\* what every step of a job leaves alone
OnlyJobs ==
    UNCHANGED <<inputs, pc, meta_vars, new_vars, old_vars, ret_vars, agg_vars, result,
                hist_vars, job_vars, x_tx, x_pc, x_buy, ledger, token_creation_time,
                backend_vars, job_script>>

\* the executor thread enters run_token_analysis_sync and the analysis
JobStart(j) ==
    /\ job_pc[j] = "queued"
    /\ frames' = [frames EXCEPT ![frame_of(j)] = NewFrame]
    /\ job_pc' = [job_pc EXCEPT ![j] = "metadata"]
    /\ UNCHANGED job_result
    /\ OnlyJobs

JobMetadata(j) ==
    /\ job_pc[j] = "metadata"
    /\ frames' = [frames EXCEPT ![frame_of(j)] = metadata_step(@, job_script[j])]
    /\ job_pc' = [job_pc EXCEPT ![j] = "efficient"]
    /\ UNCHANGED job_result
    /\ OnlyJobs

JobFetch(j) ==
    /\ job_pc[j] = "efficient"
    /\ LET f == fetch_step(frames[frame_of(j)], job_script[j])
       IN  /\ frames' = [frames EXCEPT ![frame_of(j)] = f]
           /\ job_pc' = [job_pc EXCEPT ![j] = IF f.retrieved THEN "retrieved"
                                              ELSE "efficient"]
    /\ UNCHANGED job_result
    /\ OnlyJobs

JobCheck(j) ==
    /\ job_pc[j] = "retrieved"
    /\ LET f == frames[frame_of(j)]
       IN  IF no_data(f)
           THEN /\ job_result' = [job_result EXCEPT ![j] = early_return(f)]
                /\ job_pc' = [job_pc EXCEPT ![j] = "done"]
                /\ UNCHANGED frames
           ELSE /\ frames' = [frames EXCEPT ![frame_of(j)] =
                                 window_step(f, job_script[j])]
                /\ job_pc' = [job_pc EXCEPT ![j] = "aggregate"]
                /\ UNCHANGED job_result
    /\ OnlyJobs

JobAggregate(j) ==
    /\ job_pc[j] = "aggregate"
    /\ frames[frame_of(j)].tx_i <= Len(frames[frame_of(j)].transactions)
    /\ frames' = [frames EXCEPT ![frame_of(j)] = aggregate_step(@, job_script[j])]
    /\ UNCHANGED <<job_pc, job_result>>
    /\ OnlyJobs

JobFinish(j) ==
    /\ job_pc[j] = "aggregate"
    /\ frames[frame_of(j)].tx_i > Len(frames[frame_of(j)].transactions)
    /\ job_result' = [job_result EXCEPT ![j] = final_result(frames[frame_of(j)])]
    /\ job_pc' = [job_pc EXCEPT ![j] = "done"]
    /\ UNCHANGED frames
    /\ OnlyJobs

ConcNext ==
    \E j \in Jobs :
        \/ JobStart(j) \/ JobMetadata(j) \/ JobFetch(j)
        \/ JobCheck(j) \/ JobAggregate(j) \/ JobFinish(j)

ConcSpec == ConcInit /\ [][ConcNext]_vars

\* the analysis of a script run alone, from its first statement to its return
RECURSIVE solo_fetch(_, _)
solo_fetch(f, script) ==
    LET g == fetch_step(f, script)
    IN  IF g.retrieved THEN g ELSE solo_fetch(g, script)

RECURSIVE solo_aggregate(_, _)
solo_aggregate(f, script) ==
    IF f.tx_i > Len(f.transactions) THEN f
    ELSE solo_aggregate(aggregate_step(f, script), script)

Solo(script) ==
    LET f == solo_fetch(metadata_step(NewFrame, script), script)
    IN  IF no_data(f) THEN early_return(f)
        ELSE final_result(solo_aggregate(window_step(f, script), script))

(***************************************************************************)
(* POST /analyze/token and run_token_analysis_sync as a whole: the         *)
(* endpoint stores the job as `queued` and submits it to the executor, the *)
(* worker sets it to `processing`, the analysis returns (the result of an  *)
(* analysis of some script) or raises, and the runner exports, saves,      *)
(* completes and notifies.                                                 *)
(***************************************************************************)
\* analysis_jobs has no entry for the job id
NoJob == "absent"

RunnerInit ==
    /\ min_usd = 25 /\ time_window_hours = 1 /\ max_transactions = MaxLimit
    /\ pc = "unsubmitted"
    /\ NothingFetched /\ job_status = NoJob
    /\ NoBackend
    /\ x_tx = NoneTx /\ x_pc = "unused" /\ x_buy = NoBuy
    /\ NoJobs
    /\ ledger = <<>> /\ token_creation_time = 0

\* what the steps of the runner before the analysis leave alone
BeforeAnalysis ==
    UNCHANGED <<inputs, unit_vars, max_wallets, axiom_export, token_saved, notifications,
                meta_vars, new_vars, old_vars, ret_vars, agg_vars, result, hist_vars>>

\* POST /analyze/token: an invalid address is answered 400 and no job is
\* stored; otherwise `set_analysis_job(job_id, job_data)` with status queued
\* and `ANALYSIS_EXECUTOR.submit(run_token_analysis_sync, job_id, ...)`
AnalyzeToken ==
    /\ pc = "unsubmitted"
    /\ \E is_valid_solana_address \in BOOLEAN :
          IF is_valid_solana_address
          THEN job_status' = "queued" /\ pc' = "queued"
          ELSE job_status' = job_status /\ pc' = "rejected"
    /\ BeforeAnalysis

\* a worker of the executor begins run_token_analysis_sync:
\* `update_analysis_job(job_id, {"status": "processing"})`
RunnerStart ==
    /\ pc = "queued"
    /\ job_status' = "processing"
    /\ pc' = "processing"
    /\ BeforeAnalysis

\* `result = analyzer.analyze_token(...)` returns
AnalysisReturns ==
    /\ pc = "processing"
    /\ \E script \in Scripts : result' = Solo(script)
    /\ pc' = "done"
    /\ UNCHANGED <<inputs, unit_vars, job_vars, meta_vars, new_vars, old_vars, ret_vars,
                   agg_vars, hist_vars>>

\* what the steps of the runner after the export leave alone
AnalysisKept ==
    UNCHANGED <<inputs, unit_vars, max_wallets, axiom_export, meta_vars, new_vars, old_vars,
                ret_vars, agg_vars, result, hist_vars>>

\* mutant: the exception leaves the worker and the job's entry is not updated
RunnerFailsUncaught ==
    /\ job_status' = job_status
    /\ pc' = "failed"

\* `except Exception as e: update_analysis_job(job_id, {"status": "failed", ...})`
RunnerFails ==
    /\ job_status' = "failed"
    /\ pc' = "failed"

\* `token_id = db.save_analyzed_token(...)` returns
SaveToken ==
    /\ pc = "exported"
    /\ token_saved' = TRUE
    /\ pc' = "saved"
    /\ UNCHANGED <<job_status, notifications>>
    /\ AnalysisKept

\* db.save_analyzed_token raises
SaveTokenRaises ==
    /\ pc = "exported"
    /\ RunnerFails
    /\ UNCHANGED <<token_saved, notifications>>
    /\ AnalysisKept

\* the two result files are written and their paths stored, then
\* `update_analysis_job(job_id, {"status": "completed", ...})`
CompleteJob ==
    /\ pc = "saved"
    /\ job_status' = "completed"
    /\ pc' = "completed"
    /\ UNCHANGED <<token_saved, notifications>>
    /\ AnalysisKept

\* makedirs, open, json.dump or db.update_token_file_paths raises
WriteFilesRaises ==
    /\ pc = "saved"
    /\ RunnerFails
    /\ UNCHANGED <<token_saved, notifications>>
    /\ AnalysisKept

\* mutant: the notification is sent as soon as the export is generated
notify_position_before_save == "exported"

\* where the runner is when it sends the WebSocket notification
notify_position == "completed"

\* `loop.run_until_complete(manager.broadcast(notification_message))`
Notify ==
    /\ pc = notify_position
    /\ notifications' = notifications + 1
    /\ pc' = "notified"
    /\ UNCHANGED <<job_status, token_saved>>
    /\ AnalysisKept

\* the broadcast raises: `except Exception as notify_error: print(...)`
NotifyRaises ==
    /\ pc = "completed"
    /\ pc' = "notify_failed"
    /\ UNCHANGED runner_vars
    /\ AnalysisKept

\* analyzer.analyze_token raises
AnalysisRaises ==
    /\ pc = "processing"
    /\ RunnerFails
    /\ UNCHANGED <<token_saved, notifications, result>>
    /\ UNCHANGED <<inputs, unit_vars, max_wallets, axiom_export, meta_vars, new_vars,
                   old_vars, ret_vars, agg_vars, hist_vars>>

RunnerNext ==
    \/ AnalyzeToken \/ RunnerStart
    \/ AnalysisReturns \/ AnalysisRaises
    \/ SkipExport \/ ExportResult
    \/ SaveToken \/ SaveTokenRaises \/ CompleteJob \/ WriteFilesRaises
    \/ Notify \/ NotifyRaises

RunnerSpec == RunnerInit /\ [][RunnerNext]_vars

\* the executor runs every submitted job and the worker thread keeps running:
\* each call of the runner returns or raises
RunnerLiveSpec == RunnerSpec /\ WF_vars(RunnerNext)

(***************************************************************************)
(* The token endpoints (app/routers/tokens.py) with the response cache     *)
(* (app/cache.py), one request at a time.  A row of analyzed_tokens is     *)
(* known by its id and its column deleted_at; save_analyzed_token inserts  *)
(* rows with deleted_at NULL.                                              *)
(***************************************************************************)
\* the analysis side stands still while the backend endpoints are exercised
analysis_side ==
    <<inputs, pc, meta_vars, new_vars, old_vars, ret_vars, agg_vars, result, job_vars,
      hist_vars, x_tx, x_pc, x_buy, ledger, token_creation_time, conc_vars>>

AnalysisIdle ==
    /\ min_usd = 50 /\ time_window_hours = 1 /\ max_transactions = 1
    /\ pc = "idle"
    /\ NothingRun
    /\ x_tx = NoneTx /\ x_pc = "unused" /\ x_buy = NoBuy
    /\ NoJobs
    /\ ledger = <<>> /\ token_creation_time = 0

\* what the token endpoints served one at a time leave alone
beside_tokens == <<watch_vars, flight_vars, socket_vars, analysis_side>>

MaxTokens == 3

TokenIds == 1..MaxTokens

\* values of deleted_at: NULL, the empty string, datetime.utcnow().isoformat()
NullStamp == "NULL"
EmptyStamp == ""
DeletedStamp == "2024-01-01T00:00:00"

\* no row with this id
NoRow == "no row"

\* `WHERE t.deleted_at IS NULL OR t.deleted_at = ''`
history_query(rows) ==
    {id \in DOMAIN rows : rows[id] # NoRow /\ (rows[id] = NullStamp \/ rows[id] = EmptyStamp)}

\* `WHERE t.deleted_at IS NOT NULL`
trash_query(rows) ==
    {id \in DOMAIN rows : rows[id] # NoRow /\ rows[id] # NullStamp}

\* `UPDATE analyzed_tokens SET deleted_at = ? WHERE id = ?`
soft_delete_rows(rows, token_id) ==
    [id \in DOMAIN rows |-> IF id = token_id /\ rows[id] # NoRow THEN DeletedStamp
                            ELSE rows[id]]

\* `UPDATE analyzed_tokens SET deleted_at = NULL WHERE id = ?`
restore_rows(rows, token_id) ==
    [id \in DOMAIN rows |-> IF id = token_id /\ rows[id] # NoRow THEN NullStamp
                            ELSE rows[id]]

\* `DELETE FROM analyzed_tokens WHERE id = ?`
permanent_delete_rows(rows, token_id) ==
    [id \in DOMAIN rows |-> IF id = token_id THEN NoRow ELSE rows[id]]

\* no entry under the key
NoEntry == [present |-> FALSE, data |-> {}]

\* ResponseCache.set
cache_set(data) == [present |-> TRUE, data |-> data]

\* mutant: the entries are kept
invalidate_keep(entry) == entry

\* ResponseCache.invalidate("tokens"): the key "tokens_history" contains the pattern
invalidate(entry) == NoEntry

\* ResponseCache._generate_etag
generate_etag(data) == [sent |-> TRUE, md5 |-> data]

\* the request has no If-None-Match header
NoEtag == [sent |-> FALSE, md5 |-> {}]

TokenInit ==
    /\ analyzed_tokens \in [TokenIds -> {NoRow, NullStamp}]
    /\ cache = NoEntry
    /\ http_response = [request |-> "none", token_id |-> 0, status |-> 0, tokens |-> {}]
    /\ NoWatchlist /\ NoFlights /\ NoSockets
    /\ AnalysisIdle

\* GET /api/tokens/history; `expired` says whether the ttl of the entry has
\* passed, if_none_match is the request header
GetTokensHistory ==
    \E expired \in BOOLEAN, if_none_match \in {NoEtag} \cup {generate_etag(l) : l \in SUBSET TokenIds} :
        LET hit == cache.present /\ ~expired
            fetched == history_query(analyzed_tokens)
        IN  /\ IF hit
               THEN /\ cache' = cache
                    /\ http_response' =
                          IF if_none_match = generate_etag(cache.data)
                          THEN [request |-> "history", token_id |-> 0, status |-> 304,
                                tokens |-> {}]
                          ELSE [request |-> "history", token_id |-> 0, status |-> 200,
                                tokens |-> cache.data]
               ELSE /\ cache' = cache_set(fetched)
                    /\ http_response' = [request |-> "history", token_id |-> 0,
                                         status |-> 200, tokens |-> fetched]
            /\ UNCHANGED <<analyzed_tokens, beside_tokens>>

\* GET /api/tokens/trash
GetDeletedTokens ==
    /\ http_response' = [request |-> "trash", token_id |-> 0, status |-> 200,
                         tokens |-> trash_query(analyzed_tokens)]
    /\ UNCHANGED <<analyzed_tokens, cache, beside_tokens>>

\* DELETE /api/tokens/{token_id}
SoftDeleteToken ==
    \E token_id \in TokenIds :
        /\ analyzed_tokens' = soft_delete_rows(analyzed_tokens, token_id)
        /\ cache' = invalidate(cache)
        /\ http_response' = [request |-> "soft_delete", token_id |-> token_id,
                             status |-> 200, tokens |-> {}]
        /\ UNCHANGED beside_tokens

\* POST /api/tokens/{token_id}/restore
RestoreToken ==
    \E token_id \in TokenIds :
        /\ analyzed_tokens' = restore_rows(analyzed_tokens, token_id)
        /\ cache' = invalidate(cache)
        /\ http_response' = [request |-> "restore", token_id |-> token_id,
                             status |-> 200, tokens |-> {}]
        /\ UNCHANGED beside_tokens

\* DELETE /api/tokens/{token_id}/permanent
PermanentDeleteToken ==
    \E token_id \in TokenIds :
        /\ analyzed_tokens' = permanent_delete_rows(analyzed_tokens, token_id)
        /\ cache' = invalidate(cache)
        /\ http_response' = [request |-> "permanent_delete", token_id |-> token_id,
                             status |-> 200, tokens |-> {}]
        /\ UNCHANGED beside_tokens

TokenNext ==
    \/ GetTokensHistory \/ GetDeletedTokens
    \/ SoftDeleteToken \/ RestoreToken \/ PermanentDeleteToken

TokenSpec == TokenInit /\ [][TokenNext]_vars

(***************************************************************************)
(* WatchlistService (app/services/watchlist_service.py) over the dict      *)
(* monitored_addresses of app/state.py and the JSON file                   *)
(* settings.DATA_FILE.  A write of the file succeeds, fails in open()      *)
(* (the file is left as it was) or fails in json.dump (the file was        *)
(* truncated by open and holds a partial document).                        *)
(***************************************************************************)
DEFAULT_THRESHOLD == 100

MaxImport == 2

WatchAddresses == {"A", "B"}

\* `address` values of import entries, some with blanks around or empty
EntryAddresses == {"", "A", " A", "B"}

\* str.strip on those values
strip(text) == IF text = " A" THEN "A" ELSE text

\* datetime.now().isoformat() at the time of a call
Now == "t1"

\* entries without registered_at, and one that brings its own
ImportEntries ==
    [address : EntryAddresses, registered_at : {NoneVal}]
        \cup {[address |-> "B", registered_at |-> "t0"]}

EmptyDict == <<>>

\* d[k] = v
dict_set(d, k, v) == [x \in DOMAIN d \cup {k} |-> IF x = k THEN v ELSE d[x]]

\* del d[k]
dict_del(d, k) == [x \in DOMAIN d \ {k} |-> d[x]]

\* mutant: no address is found in the dict
get_monitored_address_none(d, address) == FALSE

\* `if get_monitored_address(address)`: the entry exists (entries are non-empty dicts)
get_monitored_address(d, address) == address \in DOMAIN d

NoFile == [exists |-> FALSE, valid |-> FALSE, data |-> EmptyDict]

WriteOutcomes == {"written", "open_failed", "dump_failed"}

\* the file after save_addresses
file_after_save(d, file, outcome) ==
    IF outcome = "written" THEN [exists |-> TRUE, valid |-> TRUE, data |-> d]
    ELSE IF outcome = "open_failed" THEN file
    ELSE [exists |-> TRUE, valid |-> FALSE, data |-> EmptyDict]

\* the value save_addresses returns
save_addresses(outcome) == outcome = "written"

NoWatchResult ==
    [op |-> "none", address |-> "", status |-> "", added |-> 0, skipped |-> 0,
     given |-> 0, total |-> 0, registered_at |-> NoneVal]

WatchInit ==
    /\ monitored_addresses = EmptyDict
    /\ data_file = NoFile
    /\ watch_result = NoWatchResult
    /\ NoTokens /\ NoFlights /\ NoSockets
    /\ AnalysisIdle

WatchKept == UNCHANGED <<token_vars, flight_vars, socket_vars, analysis_side>>

RegisterAddress ==
    \E address \in WatchAddresses, note \in {NoneVal, "note"}, outcome \in WriteOutcomes :
        /\ IF get_monitored_address(monitored_addresses, address)
           THEN /\ watch_result' =
                      [NoWatchResult EXCEPT !.op = "register", !.address = address,
                           !.status = "already_registered",
                           !.registered_at = monitored_addresses[address].registered_at]
                /\ UNCHANGED <<monitored_addresses, data_file>>
           ELSE LET address_data == [registered_at |-> Now, threshold |-> DEFAULT_THRESHOLD,
                                     note |-> note]
                    stored == dict_set(monitored_addresses, address, address_data)
                IN  /\ data_file' = file_after_save(stored, data_file, outcome)
                    /\ IF save_addresses(outcome)
                       THEN /\ monitored_addresses' = stored
                            /\ watch_result' =
                                  [NoWatchResult EXCEPT !.op = "register",
                                       !.address = address, !.status = "success",
                                       !.total = Cardinality(DOMAIN stored)]
                       ELSE /\ monitored_addresses' = dict_del(stored, address)
                            /\ watch_result' =
                                  [NoWatchResult EXCEPT !.op = "register",
                                       !.address = address, !.status = "raised"]
        /\ WatchKept

UnregisterAddress ==
    \E address \in WatchAddresses, outcome \in WriteOutcomes :
        /\ IF ~get_monitored_address(monitored_addresses, address)
           THEN /\ watch_result' = [NoWatchResult EXCEPT !.op = "unregister",
                                        !.address = address, !.status = "raised"]
                /\ UNCHANGED <<monitored_addresses, data_file>>
           ELSE LET left == dict_del(monitored_addresses, address)
                IN  /\ monitored_addresses' = left
                    /\ data_file' = file_after_save(left, data_file, outcome)
                    /\ watch_result' = [NoWatchResult EXCEPT !.op = "unregister",
                                            !.address = address, !.status = "success"]
        /\ WatchKept

UpdateNote ==
    \E address \in WatchAddresses, note \in {NoneVal, "note"}, outcome \in WriteOutcomes :
        /\ IF ~get_monitored_address(monitored_addresses, address)
           THEN /\ watch_result' = [NoWatchResult EXCEPT !.op = "update_note",
                                        !.address = address, !.status = "raised"]
                /\ UNCHANGED <<monitored_addresses, data_file>>
           ELSE LET stored == [monitored_addresses EXCEPT ![address].note = note]
                IN  /\ monitored_addresses' = stored
                    /\ data_file' = file_after_save(stored, data_file, outcome)
                    /\ watch_result' = [NoWatchResult EXCEPT !.op = "update_note",
                                            !.address = address, !.status = "success"]
        /\ WatchKept

\* the loop of import_addresses from entry k on: the dict and the two counters
RECURSIVE import_loop(_, _, _)
import_loop(entries, k, acc) ==
    IF k > Len(entries) THEN acc
    ELSE LET address == strip(entries[k].address)
         IN  IF address = ""
             THEN import_loop(entries, k + 1, [acc EXCEPT !.skipped = @ + 1])
             ELSE IF get_monitored_address(acc.dict, address)
             THEN import_loop(entries, k + 1, [acc EXCEPT !.skipped = @ + 1])
             ELSE import_loop(entries, k + 1,
                     [acc EXCEPT
                        !.dict = dict_set(@, address,
                                    [registered_at |->
                                        IF entries[k].registered_at # NoneVal
                                        THEN entries[k].registered_at ELSE Now,
                                     threshold |-> DEFAULT_THRESHOLD,
                                     note |-> NoneVal]),
                        !.added = @ + 1])

ImportAddresses ==
    \E entries \in SeqsOf(ImportEntries, 0, MaxImport), outcome \in WriteOutcomes :
        LET done == import_loop(entries, 1,
                        [dict |-> monitored_addresses, added |-> 0, skipped |-> 0])
        IN  /\ monitored_addresses' = done.dict
            /\ data_file' = file_after_save(done.dict, data_file, outcome)
            /\ watch_result' = [NoWatchResult EXCEPT !.op = "import", !.status = "success",
                                    !.added = done.added, !.skipped = done.skipped,
                                    !.given = Len(entries),
                                    !.total = Cardinality(DOMAIN done.dict)]
            /\ WatchKept

ClearAll ==
    \E outcome \in WriteOutcomes :
        /\ monitored_addresses' = EmptyDict
        /\ data_file' = file_after_save(EmptyDict, data_file, outcome)
        /\ watch_result' = [NoWatchResult EXCEPT !.op = "clear", !.status = "success"]
        /\ WatchKept

WatchNext ==
    \/ RegisterAddress \/ UnregisterAddress \/ UpdateNote
    \/ ImportAddresses \/ ClearAll

WatchSpec == WatchInit /\ [][WatchNext]_vars

(***************************************************************************)
(* GET /api/tokens/history requests that overlap.  The handlers are        *)
(* coroutines of one event loop: a handler runs without interruption       *)
(* between two awaits that suspend it.  get_tokens_history runs from its   *)
(* first statement through cache.get and the start of deduplicate_request  *)
(* to the first await of the database (or of the pending future) in one    *)
(* piece; when fetch_fn returns, set_result, the removal of the pending    *)
(* entry, cache.set and the response follow in one piece.  The mutating    *)
(* handlers commit and, after the connection is closed, invalidate and     *)
(* answer.  One token row is enough to tell the listings apart.            *)
(***************************************************************************)
MaxRequests == 2

MaxMutations == 1

Requests == 1..MaxRequests

FlightTokenIds == {1}

\* no future under the key
NoFuture == 0

\* a response body: the listing and, as history, the commits it has seen
NoSnapshot == [tokens |-> {}, version |-> 0 - 1]

NewLocals == [awaiting |-> NoFuture, result |-> NoSnapshot, response |-> NoSnapshot,
              need |-> 0]

FlightInit ==
    /\ analyzed_tokens \in [FlightTokenIds -> {NoRow, NullStamp}]
    /\ cache = NoEntry
    /\ http_response = [request |-> "none", token_id |-> 0, status |-> 0, tokens |-> {}]
    /\ req_pc = [r \in Requests |-> "new"]
    /\ req_local = [r \in Requests |-> NewLocals]
    /\ pending_requests = NoFuture
    /\ futures = [r \in Requests |-> [state |-> "none", value |-> NoSnapshot]]
    /\ mut_pc = "idle" /\ returned_version = 0
    /\ commit_log = <<history_query(analyzed_tokens)>>
    /\ NoWatchlist /\ NoSockets
    /\ AnalysisIdle

\* the number of commits so far
DbVersion == Len(commit_log) - 1

FlightKept == UNCHANGED <<http_response, watch_vars, socket_vars, analysis_side>>

\* mutant: the pending entry is never found
key_in_pending_never(pending) == FALSE

\* `if key in self.pending_requests`
key_in_pending(pending) == pending # NoFuture

\* the handler up to its first suspension: a cache hit answers at once, a miss
\* joins the fetch in flight or starts one
GetStart(r) ==
    /\ req_pc[r] = "new"
    /\ \E expired \in BOOLEAN :
          IF cache.present /\ ~expired
          THEN /\ req_local' = [req_local EXCEPT ![r].need = returned_version,
                                                 ![r].response = cache.data]
               /\ req_pc' = [req_pc EXCEPT ![r] = "done"]
               /\ UNCHANGED <<cache, pending_requests, futures>>
          ELSE /\ cache' = NoEntry
               /\ IF key_in_pending(pending_requests)
                  THEN /\ req_local' = [req_local EXCEPT ![r].need = returned_version,
                                                         ![r].awaiting = pending_requests]
                       /\ req_pc' = [req_pc EXCEPT ![r] = "waiting"]
                       /\ UNCHANGED <<pending_requests, futures>>
                  ELSE /\ futures' = [futures EXCEPT ![r].state = "pending"]
                       /\ pending_requests' = r
                       /\ req_local' = [req_local EXCEPT ![r].need = returned_version]
                       /\ req_pc' = [req_pc EXCEPT ![r] = "fetching"]
    /\ UNCHANGED <<analyzed_tokens, mut_pc, commit_log, returned_version>>
    /\ FlightKept

\* fetch_tokens: the SELECT is executed
FetchQuery(r) ==
    /\ req_pc[r] = "fetching"
    /\ req_local' = [req_local EXCEPT ![r].result =
                        [tokens |-> history_query(analyzed_tokens), version |-> DbVersion]]
    /\ req_pc' = [req_pc EXCEPT ![r] = "queried"]
    /\ UNCHANGED <<analyzed_tokens, cache, pending_requests, futures, mut_pc, commit_log,
                   returned_version>>
    /\ FlightKept

\* fetch_fn returns: set_result, `finally: del pending_requests[key]`, then
\* cache.set and the response of the handler
FetchReturns(r) ==
    /\ req_pc[r] = "queried"
    /\ futures' = [futures EXCEPT ![r] = [state |-> "result", value |-> req_local[r].result]]
    /\ pending_requests' = NoFuture
    /\ cache' = cache_set(req_local[r].result)
    /\ req_local' = [req_local EXCEPT ![r].response = req_local[r].result]
    /\ req_pc' = [req_pc EXCEPT ![r] = "done"]
    /\ UNCHANGED <<analyzed_tokens, mut_pc, commit_log, returned_version>>
    /\ FlightKept

\* fetch_fn raises (connect, execute or fetchall): only the `finally` runs, the
\* future is left without result and without exception
FetchRaises(r) ==
    /\ req_pc[r] \in {"fetching", "queried"}
    /\ pending_requests' = NoFuture
    /\ req_pc' = [req_pc EXCEPT ![r] = "failed"]
    /\ UNCHANGED <<analyzed_tokens, cache, req_local, futures, mut_pc, commit_log,
                   returned_version>>
    /\ FlightKept

\* `return await self.pending_requests[key]` is resumed with the result, then
\* cache.set and the response of the handler
WaiterResumes(r) ==
    /\ req_pc[r] = "waiting"
    /\ futures[req_local[r].awaiting].state = "result"
    /\ cache' = cache_set(futures[req_local[r].awaiting].value)
    /\ req_local' = [req_local EXCEPT ![r].response = futures[req_local[r].awaiting].value]
    /\ req_pc' = [req_pc EXCEPT ![r] = "done"]
    /\ UNCHANGED <<analyzed_tokens, pending_requests, futures, mut_pc, commit_log,
                   returned_version>>
    /\ FlightKept

\* soft delete, restore or permanent delete: the statement is committed
MutationCommits ==
    /\ mut_pc = "idle"
    /\ DbVersion < MaxMutations
    /\ \E token_id \in FlightTokenIds :
          \/ analyzed_tokens' = soft_delete_rows(analyzed_tokens, token_id)
          \/ analyzed_tokens' = restore_rows(analyzed_tokens, token_id)
          \/ analyzed_tokens' = permanent_delete_rows(analyzed_tokens, token_id)
    /\ commit_log' = Append(commit_log, history_query(analyzed_tokens'))
    /\ mut_pc' = "committed"
    /\ UNCHANGED <<cache, req_pc, req_local, pending_requests, futures, returned_version>>
    /\ FlightKept

\* `cache.invalidate("tokens")` and the answer of the mutating handler
MutationReturns ==
    /\ mut_pc = "committed"
    /\ cache' = invalidate(cache)
    /\ returned_version' = DbVersion
    /\ mut_pc' = "idle"
    /\ UNCHANGED <<analyzed_tokens, req_pc, req_local, pending_requests, futures, commit_log>>
    /\ FlightKept

FlightNext ==
    \/ \E r \in Requests :
          \/ GetStart(r) \/ FetchQuery(r) \/ FetchReturns(r) \/ FetchRaises(r)
          \/ WaiterResumes(r)
    \/ MutationCommits \/ MutationReturns

FlightSpec == FlightInit /\ [][FlightNext]_vars

\* the event loop runs every coroutine that can continue, and a fetch that
\* was started returns or raises
FlightLiveSpec ==
    /\ FlightSpec
    /\ \A r \in Requests :
          /\ WF_vars(FetchQuery(r))
          /\ WF_vars(FetchReturns(r) \/ FetchRaises(r))
          /\ WF_vars(WaiterResumes(r))
    /\ WF_vars(MutationReturns)

(***************************************************************************)
(* ConnectionManager (app/websocket.py) with the /ws endpoint of           *)
(* app/main.py.  broadcast iterates over the list active_connections       *)
(* itself and is suspended in every send_json; while it is suspended       *)
(* endpoints accept new connections (append) and end (remove).  A list     *)
(* iterator of Python keeps an index and reads the element at that index   *)
(* of the list as it is then.                                              *)
(***************************************************************************)
MaxConnections == 3

Connections == 1..MaxConnections

NoConnection == 0

NoBroadcast ==
    [pc |-> "idle", index |-> 0, target |-> NoConnection, disconnected |-> <<>>,
     attempts |-> [c \in Connections |-> 0], throughout |-> {}]

SocketInit ==
    /\ active_connections = <<>>
    /\ ever_connected = {}
    /\ bc = NoBroadcast
    /\ NoTokens /\ NoWatchlist /\ NoFlights
    /\ AnalysisIdle

SocketKept == UNCHANGED <<token_vars, watch_vars, flight_vars, analysis_side>>

\* list.remove(x): the first occurrence is taken out
RECURSIVE list_remove(_, _)
list_remove(list, x) ==
    IF Len(list) = 0 THEN <<>>
    ELSE IF Head(list) = x THEN Tail(list)
    ELSE <<Head(list)>> \o list_remove(Tail(list), x)

InList(list, x) == \E k \in 1..Len(list) : list[k] = x

\* ConnectionManager.disconnect
disconnect(list, websocket) ==
    IF InList(list, websocket) THEN list_remove(list, websocket) ELSE list

RECURSIVE disconnect_all(_, _, _)
disconnect_all(list, gone, k) ==
    IF k > Len(gone) THEN list
    ELSE disconnect_all(disconnect(list, gone[k]), gone, k + 1)

\* next() of the iterator of `for connection in self.active_connections`
iterator_next(list, index) ==
    IF index < Len(list) THEN list[index + 1] ELSE NoConnection

\* websocket_endpoint: manager.connect accepts and appends a new WebSocket
Connect ==
    \E websocket \in Connections \ ever_connected :
        /\ active_connections' = Append(active_connections, websocket)
        /\ ever_connected' = ever_connected \cup {websocket}
        /\ UNCHANGED bc
        /\ SocketKept

\* websocket_endpoint: the client went away, manager.disconnect(websocket)
Disconnect ==
    \E websocket \in Connections :
        /\ InList(active_connections, websocket)
        /\ active_connections' = disconnect(active_connections, websocket)
        /\ bc' = [bc EXCEPT !.throughout = @ \ {websocket}]
        /\ UNCHANGED ever_connected
        /\ SocketKept

\* broadcast is called
BroadcastStart ==
    /\ bc.pc = "idle"
    /\ bc' = [NoBroadcast EXCEPT !.pc = "loop",
                                 !.throughout = {active_connections[k] :
                                                    k \in 1..Len(active_connections)}]
    /\ UNCHANGED <<active_connections, ever_connected>>
    /\ SocketKept

\* the for statement takes the next connection and send_json is awaited, or
\* the loop is over, the connections in `disconnected` are removed and
\* broadcast returns
BroadcastNext ==
    /\ bc.pc = "loop"
    /\ LET connection == iterator_next(active_connections, bc.index)
       IN  IF connection # NoConnection
           THEN /\ bc' = [bc EXCEPT !.pc = "sending", !.index = @ + 1,
                                    !.target = connection,
                                    !.attempts[connection] = @ + 1]
                /\ UNCHANGED active_connections
           ELSE /\ active_connections' =
                      disconnect_all(active_connections, bc.disconnected, 1)
                /\ bc' = [bc EXCEPT !.pc = "returned", !.target = NoConnection]
    /\ UNCHANGED ever_connected
    /\ SocketKept

\* send_json returns
SendReturns ==
    /\ bc.pc = "sending"
    /\ bc' = [bc EXCEPT !.pc = "loop"]
    /\ UNCHANGED <<active_connections, ever_connected>>
    /\ SocketKept

\* send_json raises: the connection is noted in `disconnected`
SendRaises ==
    /\ bc.pc = "sending"
    /\ bc' = [bc EXCEPT !.pc = "loop", !.disconnected = Append(@, bc.target)]
    /\ UNCHANGED <<active_connections, ever_connected>>
    /\ SocketKept

SocketNext ==
    \/ Connect \/ Disconnect
    \/ BroadcastStart \/ BroadcastNext \/ SendReturns \/ SendRaises

SocketSpec == SocketInit /\ [][SocketNext]_vars

(***************************************************************************)
(* Properties                                                              *)
(***************************************************************************)
Done == pc = "done"

\* the total the code has counted so far: metadata, the running strategy's
\* counters and what a returned strategy reported
RunningCredits ==
    metadata_credits + api_calls * BATCH_CALL_CREDITS
    + signature_api_calls + transaction_api_calls + transaction_credits

\* C1: in every returned result api_credits_used equals the sum of the declared
\* costs of the remote calls issued during the run (metadata 1, signature list 1,
\* detail fetch 1, efficient batch call 100); it is never smaller than that sum.
C1_CreditsEqualIssuedCosts ==
    Done => result.api_credits_used = answered_credits
CeilDiv(a, b) == (a + b - 1) \div b

\* most batch calls one run of the efficient strategy makes: every call that
\* does not end the loop returned a full page
MaxEfficientCalls == CeilDiv(Min(max_transactions, EfficientCap), BatchPage)

\* most getSignaturesForAddress calls of the old method
MaxSignatureCalls == CeilDiv(SafetyCap, SigPage)

\* C2 (as stated): the running total of declared call costs never goes above
\* the caller's ceiling maxCredits.
C2_CreditsWithinCeiling ==
    \A ceiling \in MaxCreditsChoices : RunningCredits <= ceiling

\* C2 (amended): the ceiling is not consulted; the running total is bounded by
\* the strategies' own limits only: one metadata credit plus either the batch
\* calls of the efficient strategy or the pagination calls and at most
\* max_transactions detail fetches of the old method.
C2_CreditsBoundedByStrategyLimits ==
    RunningCredits <= 1 + Max(MaxEfficientCalls * BATCH_CALL_CREDITS,
                              MaxSignatureCalls + max_transactions)

\* a returned result whose credits exceed a ceiling the caller can configure,
\* reached with the largest number of batch calls
C2_Witness ==
    /\ Done
    /\ \E ceiling \in MaxCreditsChoices : result.api_credits_used > ceiling
    /\ result.api_credits_used = 1 + MaxEfficientCalls * BATCH_CALL_CREDITS
    /\ MaxEfficientCalls > 1

C4_SortedByFirstBuyTime ==
    Done => \A i \in 1..(Len(result.early_bidders) - 1) :
                result.early_bidders[i].first_buy_time
                    <= result.early_bidders[i + 1].first_buy_time

\* a result of two buyers of which the one met first bought later
C4_Witness ==
    /\ Done
    /\ Len(result.early_bidders) = 2
    /\ buyers[1].first_buy_time > buyers[2].first_buy_time

\* C5: in every returned result, error results included,
\* total_transactions_analyzed equals the number of transactions the
\* pagination strategy normalized.
C5_AnalyzedEqualsNormalized ==
    Done => result.total_transactions_analyzed = normalized_count

\* C6: when the efficient strategy raises, on its first call or a later one,
\* the old method is invoked next, the exception reaches no caller, and the
\* analysis still returns a structured result.
C6_FallbackOnEfficientException ==
    /\ [][(pc = "efficient" /\ efficient_failed') => pc' = "old_signatures"]_vars
    /\ [](pc # "raised")
    /\ []((Done /\ efficient_failed) =>
            /\ result.error \in {"", NoTransactionsError, NoTimestampError}
            /\ result.total_unique_buyers = Len(result.early_bidders))

\* the efficient strategy raised after a batch call had been answered, and the
\* result, built from the old method's transactions, has a buyer
C6_Witness ==
    /\ Done
    /\ efficient_failed
    /\ answered_credits >= BATCH_CALL_CREDITS
    /\ result.error = ""
    /\ Len(result.early_bidders) > 0

\* the native transfers that can name the buyer: a sender, more than dust
Qualifying(tx) ==
    { i \in 1..Len(tx.nativeTransfers) :
        /\ tx.nativeTransfers[i].fromUserAccount # NoneVal
        /\ tx.nativeTransfers[i].amount > DUST_LAMPORTS }

\* some transfer of the target mint has a recipient
HasRecipient(tx) ==
    \E k \in 1..Len(tx.tokenTransfers) :
        /\ tx.tokenTransfers[k].mint = MINT
        /\ tx.tokenTransfers[k].toUserAccount # NoneVal

\* C7: for a transaction with a target-mint transfer to a recipient the buyer
\* is the sender of the largest native transfer among those with a sender and
\* more than 100,000 lamports, the first one scanned on equal amounts; without
\* such a native transfer, or without a recipient, the result is (None, None).
C7_LargestSenderIsBuyer ==
    x_pc = "extracted" =>
        IF HasRecipient(x_tx) /\ Qualifying(x_tx) # {}
        THEN \E i \in Qualifying(x_tx) :
                /\ \A j \in Qualifying(x_tx) :
                      /\ x_tx.nativeTransfers[j].amount <= x_tx.nativeTransfers[i].amount
                      /\ j < i => x_tx.nativeTransfers[j].amount
                                    < x_tx.nativeTransfers[i].amount
                /\ x_buy.wallet = x_tx.nativeTransfers[i].fromUserAccount
                /\ x_buy.usd = usd_of_lamports(x_tx.nativeTransfers[i].amount)
        ELSE x_buy = NoBuy

\* dust from A, then the same largest amount from B and from A: the buyer is B
C7_Witness ==
    /\ x_pc = "extracted"
    /\ HasRecipient(x_tx)
    /\ Len(x_tx.nativeTransfers) = 3
    /\ x_tx.nativeTransfers[1].fromUserAccount = "A"
    /\ x_tx.nativeTransfers[1].amount <= DUST_LAMPORTS
    /\ x_tx.nativeTransfers[2].fromUserAccount = "B"
    /\ x_tx.nativeTransfers[3].fromUserAccount = "A"
    /\ x_tx.nativeTransfers[2].amount = x_tx.nativeTransfers[3].amount
    /\ x_tx.nativeTransfers[2].amount > DUST_LAMPORTS
    /\ x_buy.wallet = "B"

\* the positions of the retrieved transactions that are buy events of wallet w
\* inside the window
EventsIn(w) ==
    { k \in 1..Len(transactions) :
        /\ transactions[k].timestamp # 0
        /\ transactions[k].timestamp <= window_end
        /\ extract_buy_info(transactions[k], MINT).wallet = w }

UsdAt(k) == extract_buy_info(transactions[k], MINT).usd

RECURSIVE SumUsd(_)
SumUsd(S) ==
    IF S = {} THEN 0
    ELSE LET k == CHOOSE k \in S : TRUE IN UsdAt(k) + SumUsd(S \ {k})

Present(w) ==
    \E k \in 1..Len(result.early_bidders) : result.early_bidders[k].wallet_address = w

\* C8: the minimum spend is applied to each buy event on its own.  A wallet is
\* in the result exactly when one of its events alone reaches min_usd; its
\* total and count are those of the events that reach min_usd, events below it
\* add nothing, and so total_usd >= min_usd * transaction_count.
C8_ThresholdPerEvent ==
    (Done /\ result.error = "") =>
        /\ \A w \in Wallets :
              Present(w) <=> /\ is_wallet_on_curve(w)
                             /\ \E k \in EventsIn(w) : UsdAt(k) >= min_usd * MICRO
        /\ \A k \in 1..Len(result.early_bidders) :
              LET b == result.early_bidders[k]
                  counted == { e \in EventsIn(b.wallet_address) :
                                  UsdAt(e) >= min_usd * MICRO }
              IN  /\ b.transaction_count = Cardinality(counted)
                  /\ b.total_usd = SumUsd(counted)
                  /\ b.total_usd >= min_usd * MICRO * b.transaction_count

\* wallet B bought twice for 25 dollars inside the window, the minimum is 50:
\* the sum reaches the minimum, no event does, and B is absent while A is present
C8_Witness ==
    /\ Done /\ result.error = ""
    /\ min_usd = 50
    /\ Cardinality(EventsIn("B")) >= 2
    /\ SumUsd(EventsIn("B")) >= min_usd * MICRO
    /\ \A k \in EventsIn("B") : UsdAt(k) < min_usd * MICRO
    /\ ~Present("B")
    /\ Present("A")

\* C9: a wallet whose address fails the on-curve check (it does not decode, or
\* not to 32 bytes) is in no result, whatever it spent and however many
\* transactions it has.
C9_OffCurveNeverListed ==
    Done => \A k \in 1..Len(result.early_bidders) :
                b58decode_len(result.early_bidders[k].wallet_address) = PUBKEY_BYTES

\* wallet S (31 bytes when decoded) paid at least the minimum inside the
\* window and the returned list does not name it
C9_Witness ==
    /\ Done /\ result.error = ""
    /\ ~is_wallet_on_curve("S")
    /\ \E k \in EventsIn("S") : UsdAt(k) >= min_usd * MICRO
    /\ ~Present("S")

\* the run is in one of the two no-data conditions
NoData ==
    \/ Len(transactions) = 0
    \/ \A k \in 1..Len(transactions) : transactions[k].timestamp = 0

QualifyingEvents(w) ==
    { k \in EventsIn(w) : is_wallet_on_curve(w) /\ UsdAt(k) >= min_usd * MICRO }

\* C11: the buyers list names each wallet at most once, and each entry's
\* transaction_count (>= 1), total_usd, first_buy_time and average_buy_usd are
\* the count, the sum, the earliest timestamp and sum / count of exactly that
\* wallet's qualifying buy events, in whatever order the stream delivered them.
C11_AggregatesExact ==
    (Done /\ result.error = "") =>
        LET e == result.early_bidders
        IN  /\ \A i, j \in 1..Len(e) :
                  e[i].wallet_address = e[j].wallet_address => i = j
            /\ \A i \in 1..Len(e) :
                  LET q == QualifyingEvents(e[i].wallet_address)
                  IN  /\ q # {}
                      /\ e[i].transaction_count >= 1
                      /\ e[i].transaction_count = Cardinality(q)
                      /\ e[i].total_usd = SumUsd(q)
                      /\ \E k \in q : transactions[k].timestamp = e[i].first_buy_time
                      /\ \A k \in q : transactions[k].timestamp >= e[i].first_buy_time
                      /\ e[i].average_buy_usd * e[i].transaction_count <= e[i].total_usd
                      /\ e[i].total_usd
                           < (e[i].average_buy_usd + 1) * e[i].transaction_count

\* wallet A has two qualifying events and the stream delivered the later one
\* first
C11_Witness ==
    /\ Done /\ result.error = ""
    /\ \E i, j \in QualifyingEvents("A") :
          /\ i < j
          /\ transactions[i].timestamp > transactions[j].timestamp
    /\ \E k \in 1..Len(result.early_bidders) :
          /\ result.early_bidders[k].wallet_address = "A"
          /\ result.early_bidders[k].transaction_count >= 2
\* transaction k of the retrieved stream is skipped by the scan: it has no
\* timestamp or lies after the window
OutOfScan(k) ==
    \/ transactions[k].timestamp = 0
    \/ transactions[k].timestamp > window_end

\* C12: a transaction later than first_tx_time + time_window_hours, or without
\* a timestamp, changes no aggregate, and the scan goes on with the next
\* transaction: whatever lies inside the window after it is still aggregated.
C12_WindowSkipsAndContinues ==
    /\ [][(pc = "aggregate" /\ tx_i <= Len(transactions) /\ OutOfScan(tx_i))
            => (buyers' = buyers /\ tx_i' = tx_i + 1 /\ pc' = "aggregate")]_vars
    /\ [](pc = "aggregate" => window_end = first_tx_time
                                + time_window_hours * SECONDS_PER_HOUR)
    /\ []((Done /\ result.error = "") =>
            /\ tx_i = Len(transactions) + 1
            /\ \A w \in Wallets : Present(w) <=> QualifyingEvents(w) # {}
            /\ \A i \in 1..Len(result.early_bidders) :
                  result.early_bidders[i].first_buy_time <= window_end)

\* a transaction after the window and, behind it in the stream, a qualifying
\* buy of B inside the window, which the result counts
C12_Witness ==
    /\ Done /\ result.error = ""
    /\ \E k, j \in 1..Len(transactions) :
          /\ k < j
          /\ transactions[k].timestamp > window_end
          /\ j \in QualifyingEvents("B")
    /\ Present("B")

\* batch calls the efficient strategy has been answered so far
BatchCallsIssued == answered_credits \div BATCH_CALL_CREDITS

\* C13 (as stated): against a faithful endpoint holding N transactions, with
\* no call failing, the efficient strategy returns min(limit, N) of them,
\* oldest first, at 100 credits per batch call issued.
C13_ReturnsMinLimitN ==
    pc = "retrieved" =>
        /\ raw_count = Min(max_transactions, Len(ledger))
        /\ transactions = parse_all(SubSeq(ledger, 1, raw_count), 1, 1)
        /\ transaction_credits = BATCH_CALL_CREDITS * BatchCallsIssued

\* C13 (amended): the loop asks for at most min(limit, 500) transactions in
\* all.  It goes on, sending the token of the previous batch, exactly while
\* every batch so far was full, came with a token and the count is not yet
\* reached; it returns the normalized ones among the earliest
\* min(limit, 500, N) transactions, oldest first, at 100 credits per batch
\* call issued, with no call beyond the first page that is short, empty or
\* without token.
C13_ReturnsEarliestUpToCap ==
    LET wanted == Min(max_transactions, EfficientCap)
        m == Min(wanted, Len(ledger))
    IN  /\ (pc = "efficient" /\ api_calls > 0) =>
              /\ pagination_token # NoToken
              /\ raw_count = api_calls * BatchPage
              /\ remaining_limit = wanted - raw_count
              /\ remaining_limit > 0
              /\ all_transactions = parse_all(SubSeq(ledger, 1, raw_count), 1, 1)
        /\ pc = "retrieved" =>
              /\ raw_count = m
              /\ transactions = parse_all(SubSeq(ledger, 1, m), 1, 1)
              /\ \A k \in 1..(Len(transactions) - 1) :
                    transactions[k].signature < transactions[k + 1].signature
              /\ transaction_credits = BATCH_CALL_CREDITS * BatchCallsIssued
              /\ BatchCallsIssued >= Max(1, CeilDiv(m, BatchPage))
              /\ BatchCallsIssued <= CeilDiv(m, BatchPage) + 1

\* more is asked for than the cap and the endpoint holds more than the cap:
\* the strategy returned the cap's worth in more than one batch call
C13_Witness ==
    /\ pc = "retrieved"
    /\ max_transactions > EfficientCap
    /\ Len(ledger) > EfficientCap
    /\ raw_count = EfficientCap
    /\ BatchCallsIssued > 1
    /\ Len(transactions) = EfficientCap
\* C14: in every state of the signature-pagination loop of the old method,
\* with or without the creation-time filter, the number of accumulated
\* signatures is at most the safety cap.
C14_SignaturesWithinCap ==
    /\ Len(all_signatures) <= SafetyCap
    /\ total_fetched <= SafetyCap
\* C15: the old method returns the earliest `limit` transactions of the
\* address, oldest first, after at most `limit` detail fetches (stated for the
\* call without creation-time filter, every payload that normalizes being
\* kept).
C15_ReturnsEarliestLimit ==
    (pc = "retrieved" /\ token_creation_time = 0) =>
        LET m == Min(max_transactions, Len(ledger))
        IN  /\ transactions = parse_all(SubSeq(ledger, 1, m), 1, 1)
            /\ raw_count <= max_transactions

\* the same statement for addresses that hold no more transactions than the
\* safety cap
EarliestLimitBelowCap ==
    Len(ledger) <= SafetyCap => C15_ReturnsEarliestLimit
InOldMethod == pc \in {"old_signatures", "old_details"}

\* C16: the two strategies never run at the same time and the fallback starts
\* from scratch: the old method is entered only from the failing efficient
\* strategy, with empty lists and zero counters, while one strategy runs the
\* other holds nothing, and the stream handed to the aggregator after a
\* fallback consists of the transactions the old method fetched, each once.
C16_FallbackFromScratch ==
    /\ [][(pc' = "old_signatures" /\ pc # "old_signatures")
            => /\ pc = "efficient" /\ ~efficient_failed /\ efficient_failed'
               /\ all_transactions' = <<>> /\ all_signatures' = <<>>
               /\ signature_api_calls' = 0 /\ transaction_api_calls' = 0
               /\ total_fetched' = 0 /\ before_signature' = 0]_vars
    /\ [](InOldMethod =>
            /\ efficient_failed
            /\ api_calls = 0 /\ remaining_limit = 0 /\ pagination_token = NoToken
            /\ Len(all_transactions) = normalized_count)
    /\ [](pc = "efficient" =>
            /\ ~efficient_failed
            /\ all_signatures = <<>> /\ earliest_signatures = <<>>
            /\ signature_api_calls = 0 /\ transaction_api_calls = 0)
    /\ []((pc \in {"retrieved", "aggregate", "done"} /\ efficient_failed) =>
            /\ Len(transactions) = normalized_count
            /\ \A i, j \in 1..Len(transactions) :
                  transactions[i].signature = transactions[j].signature => i = j)

\* the efficient strategy failed after it had collected a transaction, and the
\* fallback then fetched transactions of its own, which are the whole stream
C16_Witness ==
    /\ pc = "retrieved"
    /\ efficient_failed
    /\ answered_credits >= BATCH_CALL_CREDITS + 2
    /\ Len(transactions) >= 1
    /\ Len(transactions) = normalized_count
\* C17: the metadata lookup asks the primary endpoint first; the secondary
\* asset lookup is made exactly when the primary failed or answered empty; when
\* both fail the lookup yields None at no credit and the analysis goes on to
\* the retrieval with token_info = None, which by itself is no error.
C17_MetadataFallback ==
    /\ [][pc = "metadata" =>
            \/ token_info' = "standard" /\ metadata_credits' = 1 /\ pc' = "efficient"
            \/ pc' = "metadata_das" /\ UNCHANGED meta_vars]_vars
    /\ [][pc' = "metadata_das" => pc \in {"metadata", "metadata_das"}]_vars
    /\ [][pc = "metadata_das" =>
            /\ pc' = "efficient"
            /\ \/ token_info' = "das" /\ metadata_credits' = 1
               \/ token_info' = NoneVal /\ metadata_credits' = 0]_vars
    /\ [](Done => /\ result.token_info = token_info
                  /\ (token_info = NoneVal /\ ~NoData) => result.error = "")

\* primary and secondary lookup failed and the analysis returned buyers
C17_Witness ==
    /\ Done
    /\ token_info = NoneVal
    /\ metadata_credits = 0
    /\ result.error = ""
    /\ Len(result.early_bidders) > 0
\* a list of normalized transactions: no None in it, in the order of fetching
InFetchOrder(txs) ==
    /\ \A k \in 1..Len(txs) : txs[k] # NoneTx /\ txs[k].signature >= 1
    /\ \A k \in 1..(Len(txs) - 1) : txs[k].signature < txs[k + 1].signature

\* C18: in both strategies a payload that fails to normalize, or a detail
\* fetch that fails, costs that one transaction only: the strategy goes on
\* with the next one, keeps every other transaction in the order of fetching,
\* and neither raises nor hands over to the fallback.
C18_BadTransactionDroppedAlone ==
    /\ [][(pc = "efficient" /\ raw_count' > raw_count)
            => pc' \in {"efficient", "retrieved"} /\ ~efficient_failed']_vars
    /\ [][pc = "old_details"
            => /\ pc' \in {"old_details", "retrieved"}
               /\ pc' = "old_details" => sig_i' = sig_i + 1]_vars
    /\ [](pc \in {"efficient", "old_details"} =>
            /\ InFetchOrder(all_transactions)
            /\ Len(all_transactions) = normalized_count)
    /\ [](pc = "retrieved" =>
            /\ InFetchOrder(transactions)
            /\ Len(transactions) = normalized_count)

\* the efficient strategy returned, without failing, a transaction that
\* followed a dropped payload in its page
C18_Witness ==
    /\ pc = "retrieved"
    /\ ~efficient_failed
    /\ normalized_count < raw_count
    /\ Len(transactions) >= 1
    /\ transactions[Len(transactions)].signature = raw_count
    /\ transactions[1].signature > 1

\* C19: analyses that run concurrently share no mutable state: however their
\* steps are interleaved, an analysis that has returned has returned the buyers
\* and the api_credits_used it returns when it runs alone against the same
\* ledger responses.
C19_ConcurrentAnalysesIndependent ==
    \A j \in DOMAIN job_pc :
        job_pc[j] = "done" =>
            /\ job_result[j].early_bidders = Solo(job_script[j]).early_bidders
            /\ job_result[j].api_credits_used = Solo(job_script[j]).api_credits_used

\* one analysis has returned two buyers while another one, given other
\* responses, is in the middle of its aggregation with a buyer of its own
C19_Witness ==
    /\ DOMAIN job_pc = Jobs
    /\ job_pc[1] = "done" /\ Len(job_result[1].early_bidders) = 2
    /\ job_pc[2] = "aggregate"
    /\ job_script[2] # job_script[1]
    /\ Len(frames[2].buyers) = 1 /\ frames[2].tx_i = 2
    /\ Len(frames[2].transactions) = 3

\* C20: the job runner persists before it notifies: an analysis_complete
\* broadcast is sent only when the token and its buyers have been saved to the
\* database and the job status is completed, and a job that failed, or that
\* found no data and was not saved, has sent no analysis_complete notification.
C20_PersistBeforeNotify ==
    /\ [][notifications' # notifications
            => /\ token_saved /\ job_status = "completed"
               /\ token_saved' /\ job_status' = "completed"]_vars
    /\ [](notifications > 0 => token_saved /\ job_status = "completed")
    /\ [](job_status = "failed" => notifications = 0)
    /\ [](pc = "no_data" => ~token_saved /\ notifications = 0)

\* the notification of a saved, completed job with two buyers has been sent
C20_Witness ==
    /\ pc = "notified" /\ notifications = 1
    /\ token_saved /\ job_status = "completed"
    /\ Len(result.early_bidders) = 2

\* what GET /api/tokens/history answers now (from the cache while it has an entry)
HistoryListing ==
    IF cache.present THEN cache.data ELSE history_query(analyzed_tokens)

\* what GET /api/tokens/trash answers now
TrashListing == trash_query(analyzed_tokens)

\* C21: after any sequence of soft delete, restore and permanent delete
\* requests every token that exists is in exactly one of the history listing
\* and the trash listing and a token that does not exist is in neither; a soft
\* delete leaves the token in the trash, a restore leaves it in the history and
\* a permanent delete leaves it in neither.
C21_TrashLifecycle ==
    /\ [](\A id \in DOMAIN analyzed_tokens :
            IF analyzed_tokens[id] # NoRow
            THEN (id \in HistoryListing) # (id \in TrashListing)
            ELSE id \notin HistoryListing /\ id \notin TrashListing)
    /\ [][\A id \in DOMAIN analyzed_tokens :
            /\ analyzed_tokens[id] # NoRow /\ http_response'.token_id = id
               /\ http_response'.request = "soft_delete"
                  => id \in TrashListing' /\ id \notin HistoryListing'
            /\ analyzed_tokens[id] # NoRow /\ http_response'.token_id = id
               /\ http_response'.request = "restore"
                  => id \in HistoryListing' /\ id \notin TrashListing'
            /\ http_response'.token_id = id
               /\ http_response'.request = "permanent_delete"
                  => id \notin HistoryListing' /\ id \notin TrashListing'
                     /\ analyzed_tokens'[id] = NoRow]_vars

\* a token has just been soft-deleted and is in the trash, another one has been
\* deleted permanently and a third one is in the history
C21_Witness ==
    /\ DOMAIN analyzed_tokens = TokenIds
    /\ http_response.request = "soft_delete"
    /\ analyzed_tokens[http_response.token_id] = DeletedStamp
    /\ \E id \in TokenIds : analyzed_tokens[id] = NoRow
    /\ \E id \in TokenIds : analyzed_tokens[id] = NullStamp

\* C22: register_address on an address that is monitored answers
\* already_registered and leaves the stored entries and the count as they
\* were; import_addresses leaves every existing entry as it was and reports
\* added + skipped = number of entries given.
C22_RegisterAndImportKeepExisting ==
    [][/\ watch_result'.op = "register"
          /\ watch_result'.address \in DOMAIN monitored_addresses
          /\ watch_result' # watch_result
             => /\ watch_result'.status = "already_registered"
                /\ monitored_addresses' = monitored_addresses
                /\ watch_result'.registered_at
                      = monitored_addresses[watch_result'.address].registered_at
       /\ watch_result'.op = "import" /\ watch_result' # watch_result
             => /\ \A a \in DOMAIN monitored_addresses :
                      /\ a \in DOMAIN monitored_addresses'
                      /\ monitored_addresses'[a] = monitored_addresses[a]
                /\ watch_result'.added + watch_result'.skipped = watch_result'.given
                /\ watch_result'.added
                      = Cardinality(DOMAIN monitored_addresses')
                        - Cardinality(DOMAIN monitored_addresses)]_vars

\* an import of two entries found one of them monitored (with a note) and
\* added the other
C22_Witness ==
    /\ watch_result.op = "import" /\ watch_result.given = 2
    /\ watch_result.added = 1 /\ watch_result.skipped = 1
    /\ \E a \in DOMAIN monitored_addresses : monitored_addresses[a].note = "note"

\* C23: after every watchlist operation that reports success the content of
\* the data file equals the monitored addresses in memory, also when a write
\* of the file failed.
C23_FileEqualsMemoryAfterSuccess ==
    watch_result # <<>> /\ watch_result.status = "success"
        => /\ data_file.exists /\ data_file.valid
           /\ data_file.data = monitored_addresses

Fetching == {r \in DOMAIN req_pc : req_pc[r] \in {"fetching", "queried"}}

\* C24: deduplicate_request is single-flight per key: at most one fetch for
\* the key runs at any time, a call made while a fetch is in flight waits for
\* it instead of fetching, and a caller that waited receives the result of
\* the fetch it waited for.
C24_SingleFlight ==
    /\ [](Cardinality(Fetching) <= 1)
    /\ [](\A r \in DOMAIN req_pc :
             /\ req_pc[r] = "waiting"
                   => /\ req_local[r].awaiting # r
                      /\ futures[req_local[r].awaiting].state # "none"
             /\ req_pc[r] = "done" /\ req_local[r].awaiting # NoFuture
                   => req_local[r].response = futures[req_local[r].awaiting].value)
    /\ [][\A r \in DOMAIN req_pc :
             req_pc[r] = "new" /\ req_pc'[r] = "fetching" => Fetching = {}]_vars

\* a caller waited for the fetch of another one and was answered with its result
C24_Witness ==
    /\ DOMAIN req_pc = Requests
    /\ \E f, r \in Requests :
          /\ futures[f].state = "result" /\ req_pc[f] = "done"
          /\ req_pc[r] = "done" /\ req_local[r].awaiting = f
          /\ req_local[r].response.tokens = {1}

\* C25: every call of deduplicate_request eventually returns or raises: a
\* caller that waits for a fetch in flight is released when that fetch
\* finishes, whether it returned or raised.
C25_EveryCallReturns ==
    \A r \in Requests :
        (req_pc[r] \in {"fetching", "queried", "waiting"})
            ~> (req_pc[r] \in {"done", "failed"})

\* the part of the claim about the pending entry: while no fetch runs there is
\* no entry under the key
PendingRemoved == (Fetching = {}) => pending_requests = NoFuture

\* C26: the history cache never serves data older than the last committed
\* mutation: a GET /api/tokens/history issued after a soft delete, restore or
\* permanent delete has returned is answered with a listing that reflects it.
C26_HistoryReflectsReturnedMutations ==
    \A r \in DOMAIN req_pc :
        req_pc[r] = "done"
            => \E v \in req_local[r].need..DbVersion :
                  req_local[r].response.tokens = commit_log[v + 1]

\* C27: broadcast delivers to all connected clients: when it has returned,
\* send_json was called exactly once on every connection that was registered
\* from its beginning to its end, also when other clients connected or
\* disconnected meanwhile; every connection whose send raised is removed from
\* active_connections and every other such connection is still registered.
C27_BroadcastReachesAll ==
    bc # <<>> /\ bc.pc = "returned"
        => /\ \A c \in bc.throughout : bc.attempts[c] = 1
           /\ \A k \in 1..Len(bc.disconnected) :
                 ~InList(active_connections, bc.disconnected[k])
           /\ \A c \in bc.throughout :
                 (\A k \in 1..Len(bc.disconnected) : bc.disconnected[k] # c)
                     => InList(active_connections, c)

\* the changes of a job's status that the state machine allows
StatusMoves ==
    {<<NoJob, "queued">>, <<"queued", "processing">>,
     <<"processing", "completed">>, <<"processing", "failed">>}

\* C28: the status of an analysis job is a one-way state machine: the job is
\* created as queued, its status only moves queued -> processing -> completed
\* or failed, it never changes once it is completed or failed, and every
\* submitted job eventually is completed or failed when every call of its
\* runner returns or raises.
C28_JobStatusOneWay ==
    /\ [](job_status \in {NoJob, "queued", "processing", "completed", "failed"})
    /\ [][job_status' # job_status => <<job_status, job_status'>> \in StatusMoves]_vars
    /\ [][(job_status = "completed" \/ job_status = "failed")
            => job_status' = job_status]_vars
    /\ (job_status = "queued" ~> job_status \in {"completed", "failed"})

\* a submitted job has failed after its token was saved: writing the result
\* files raised
C28_Witness ==
    /\ pc = "failed" /\ job_status = "failed" /\ token_saved

\* most batch calls of one invocation whatever the limit: the cap over the page
\* size, rounded up (500 over 100 in the source)
CapCalls == CeilDiv(EfficientCap, BatchPage)

\* C29: the efficient strategy terminates and issues at most CapCalls batch
\* calls, CapCalls * 100 credits, in one invocation, for every limit and every
\* sequence of answers of the endpoint: the remaining count starts at
\* min(limit, cap), is positive whenever a call is issued, and every iteration
\* that does not stop lowers it by a full batch.
C29_EfficientTerminatesWithinCap ==
    /\ [](api_calls <= CapCalls)
    /\ [](answered_credits <= CapCalls * BATCH_CALL_CREDITS)
    /\ [](pc = "retrieved" => transaction_credits <= CapCalls * BATCH_CALL_CREDITS)
    /\ [](pc = "efficient"
            => /\ remaining_limit > 0
               /\ api_calls < CapCalls
               /\ remaining_limit
                    = Min(max_transactions, EfficientCap) - api_calls * BatchPage)
    /\ [][(pc = "efficient" /\ pc' = "efficient")
            => /\ api_calls' = api_calls + 1
               /\ remaining_limit' = remaining_limit - BatchPage
               /\ remaining_limit' < remaining_limit]_vars
    /\ <>(pc = "retrieved" \/ pc = "old_signatures")

\* an invocation with a limit above the cap has returned after the largest
\* number of batch calls with as many transactions as the cap
C29_Witness ==
    /\ pc = "retrieved" /\ ~efficient_failed
    /\ max_transactions > EfficientCap
    /\ transaction_credits = CapCalls * BATCH_CALL_CREDITS
    /\ CapCalls > 1
    /\ Len(transactions) = EfficientCap

\* positions of the aggregates that a step created or changed
Touched ==
    {k \in 1..Len(buyers') : k > Len(buyers) \/ buyers'[k] # buyers[k]}

\* C30: while the aggregator consumes the stream each wallet's aggregate
\* changes monotonically: from one processed transaction to the next its
\* first_buy_time never increases, its total_usd and transaction_count never
\* decrease, an aggregate once created is never removed, and a transaction
\* changes the aggregate of at most one wallet, its inferred buyer.
C30_AggregatesMonotone ==
    [][(pc = "aggregate" /\ pc' = "aggregate")
        => /\ Len(buyers') >= Len(buyers)
           /\ \A k \in 1..Len(buyers) :
                 /\ buyers'[k].wallet_address = buyers[k].wallet_address
                 /\ buyers'[k].first_buy_time <= buyers[k].first_buy_time
                 /\ buyers'[k].total_usd >= buyers[k].total_usd
                 /\ buyers'[k].transaction_count >= buyers[k].transaction_count
           /\ Cardinality(Touched) <= 1
           /\ \A k \in Touched :
                 buyers'[k].wallet_address
                     = extract_buy_info(transactions[tx_i], MINT).wallet]_vars

\* the scan has processed two qualifying buys of one wallet, the later one
\* first: the second moved the wallet's first_buy_time back and raised its sum
\* and its count
C30_Witness ==
    /\ pc = "aggregate" /\ tx_i = 3
    /\ transactions[1].timestamp > transactions[2].timestamp
    /\ Len(buyers) = 1
    /\ buyers[1].transaction_count = 2
    /\ buyers[1].first_buy_time = transactions[2].timestamp
    /\ buyers[1].total_usd = UsdAt(1) + UsdAt(2)

====
